---- MODULE Spec2Model ----
(***************************************************************************)
(* The photo editor of src/App.tsx as a state machine: the edit history    *)
(* with its cursor, the one outstanding external call, the placed stickers *)
(* with their gestures, and the fusion / chain detection effect.           *)
(*                                                                         *)
(* One action is one event handler together with the effects React runs    *)
(* before the next event can be handled (the detection effect of           *)
(* App.tsx:212-334 when placedStickers or brokenChainLinks was set).       *)
(*                                                                         *)
(* Geometry is exact integer arithmetic: positions are whole percentages,  *)
(* container sides are multiples of 100 px, and a comparison               *)
(* distance < t is made on the squares, 4*d^2 < (2t)^2.                    *)
(***************************************************************************)
EXTENDS Integers, Sequences, FiniteSets, TLC

VARIABLES
    history,            \* useState<File[]>            App.tsx:50
    historyIndex,       \* useState<number>(-1)        App.tsx:51
    isLoading,          \* App.tsx:52
    error,              \* App.tsx:53   NoError or a message
    activeTool,         \* App.tsx:54
    completedCrop,      \* App.tsx:57   NoCrop or [width, height]
    selectedSticker,    \* App.tsx:62   Null, "" or an emoji
    placedStickers,     \* App.tsx:63   sequence of Sticker records
    draggingStickerId,  \* App.tsx:64
    activeStickerId,    \* App.tsx:65
    resizingState,      \* App.tsx:66   Null or [startX, initialSize]
    rotatingState,      \* App.tsx:67   Null or [startAngle, initialRotation]
    fusions,            \* App.tsx:68   sequence of sequences of ids
    chains,             \* App.tsx:69
    brokenChainLinks,   \* App.tsx:70   set of ids
    rect,               \* imgRef.current.getBoundingClientRect(): [width, height]
    pending,            \* the outstanding external call with the closure it runs in
    nextId,             \* number of sticker ids handed out so far
    nextFile,           \* number of File objects created so far
    generateAction,     \* App.tsx:72   [tool, isEnabled, prompt]: whose handler is bound
    panel,              \* FilterPanel / AdjustmentPanel state while one is mounted
    panelEffectDue,     \* a dependency of the mounted panel's effect changed in the last render
    appRenderDue,       \* an effect stored a state of App that App has not rendered yet
    lastEvent           \* the step taken last (an event handled, an effect, a render): [name, arg]

vars == <<history, historyIndex, isLoading, error, activeTool, completedCrop,
          selectedSticker, placedStickers, draggingStickerId, activeStickerId,
          resizingState, rotatingState, fusions, chains, brokenChainLinks,
          rect, pending, nextId, nextFile, generateAction, panel, panelEffectDue,
          appRenderDue, lastEvent>>

\* null, for the string-valued state (selectedSticker)
Null == "null"
\* null, for the id-valued state (draggingStickerId, activeStickerId)
NoId == 0
NoError == "none"
NoCrop == [set |-> FALSE, width |-> 0, height |-> 0]
NoResize == [active |-> FALSE, startX |-> 0, initialSize |-> 0]
NoRotate == [active |-> FALSE, startAngle |-> 0, initialRotation |-> 0]
NoCall == [kind |-> "none", history |-> <<>>, historyIndex |-> -1,
           inputs |-> <<>>, descriptions |-> <<>>]
\* { action: null, isEnabled: false }
NoAction == [tool |-> "none", isEnabled |-> FALSE, prompt |-> ""]
\* no FilterPanel and no AdjustmentPanel is mounted
NoPanel == [activeCategory |-> "none", selectedPresetPrompt |-> Null, customPrompt |-> ""]

(***************************************************************************)
(* Bounds of the model.                                                    *)
(***************************************************************************)
\* Sticker ids handed out in one run of the editor (Spec).
MaxIds == 2
\* File objects created in one run of the editor (Spec).
MaxFiles == 3
\* Stickers in an input of the relationship builder (SpecBuilder).
MaxBuilderStickers == 3

(***************************************************************************)
(* Program constants.                                                      *)
(***************************************************************************)
DefaultSize == 48
MinSize == 16
MaxSize == 200
ChainReach == 3

Emojis == {"A", "B"}
Tools == {"stickers", "adjust", "filters", "crop"}


(***************************************************************************)
(* Helpers on sequences.                                                   *)
(***************************************************************************)
Range(s) == {s[i] : i \in 1..Len(s)}

\* string[][].flat() as a set (new Set(x.flat()))
FlatIds(components) == UNION {Range(components[i]) : i \in 1..Len(components)}

StickerIds(stickers) == {stickers[i].id : i \in 1..Len(stickers)}

\* placedStickers.find(s => s.id === id), for an id that is there
StickerOfIn(stickers, id) == stickers[CHOOSE i \in 1..Len(stickers) : stickers[i].id = id]

\* The elements of a set of indices, ascending.
RECURSIVE Ascending(_)
Ascending(idx) ==
    IF idx = {} THEN <<>>
    ELSE LET m == CHOOSE a \in idx : \A b \in idx : a <= b
         IN <<m>> \o Ascending(idx \ {m})

\* Array.prototype.filter on the sticker list, by a set of ids to keep.
KeepIds(stickers, keep) ==
    LET idx == Ascending({i \in 1..Len(stickers) : stickers[i].id \in keep})
    IN [k \in 1..Len(idx) |-> stickers[idx[k]]]

(***************************************************************************)
(* The detection effect, App.tsx:212-334.                                  *)
(***************************************************************************)
GetStickerPixelPosition(sticker, r) ==
    [x |-> (sticker.x * r.width) \div 100, y |-> (sticker.y * r.height) \div 100]

\* distance^2 of App.tsx:230 and App.tsx:292
DistanceSq(s1, s2, r) ==
    LET pos1 == GetStickerPixelPosition(s1, r)
        pos2 == GetStickerPixelPosition(s2, r)
    IN (pos1.x - pos2.x) * (pos1.x - pos2.x) + (pos1.y - pos2.y) * (pos1.y - pos2.y)

\* A plausible slip: the test of the emojis left out.
DoStickersOverlap_AnyTag(s1, s2, r) ==
    IF s1.id = s2.id THEN FALSE
    ELSE 4 * DistanceSq(s1, s2, r) < (s1.size + s2.size) * (s1.size + s2.size)

\* A plausible slip: <= for <.
DoStickersOverlap_Le(s1, s2, r) ==
    IF s1.id = s2.id \/ s1.emoji = s2.emoji THEN FALSE
    ELSE 4 * DistanceSq(s1, s2, r) <= (s1.size + s2.size) * (s1.size + s2.size)

\* distance < s1.size/2 + s2.size/2
DoStickersOverlap(s1, s2, r) ==
    IF s1.id = s2.id \/ s1.emoji = s2.emoji THEN FALSE
    ELSE 4 * DistanceSq(s1, s2, r) < (s1.size + s2.size) * (s1.size + s2.size)

\* A plausible slip: the reach multiplier left out.
DoStickersConnect_NoReach(s1, s2, r) ==
    4 * DistanceSq(s1, s2, r) < (s1.size + s2.size) * (s1.size + s2.size)

\* distance < (s1.size + s2.size) / 2 * 3
DoStickersConnect(s1, s2, r) ==
    4 * DistanceSq(s1, s2, r)
        < ChainReach * ChainReach * (s1.size + s2.size) * (s1.size + s2.size)

\* fusionAdj: id -> neighbour ids, in the order the pair loops push them.
FusionAdj(stickers, r) ==
    [id \in StickerIds(stickers) |->
        LET k == CHOOSE i \in 1..Len(stickers) : stickers[i].id = id
            idx == Ascending({j \in 1..Len(stickers) :
                        /\ j # k
                        /\ IF j < k THEN DoStickersOverlap(stickers[j], stickers[k], r)
                                    ELSE DoStickersOverlap(stickers[k], stickers[j], r)})
        IN [n \in 1..Len(idx) |-> stickers[idx[n]].id]]

\* chainAdj of one emoji group
ChainAdj(group, r) ==
    [id \in StickerIds(group) |->
        LET k == CHOOSE i \in 1..Len(group) : group[i].id = id
            idx == Ascending({j \in 1..Len(group) :
                        /\ j # k
                        /\ IF j < k THEN DoStickersConnect(group[j], group[k], r)
                                    ELSE DoStickersConnect(group[k], group[j], r)})
        IN [n \in 1..Len(idx) |-> group[idx[n]].id]]

\* adj.get(currentId)?.forEach(neighborId => ...): push the unvisited neighbours
RECURSIVE PushNeighbors(_, _, _)
PushNeighbors(neighbors, stack, visited) ==
    IF neighbors = <<>> THEN [stack |-> stack, visited |-> visited]
    ELSE LET n == Head(neighbors)
         IN IF n \in visited
            THEN PushNeighbors(Tail(neighbors), stack, visited)
            ELSE PushNeighbors(Tail(neighbors), Append(stack, n), visited \cup {n})

\* while (stack.length > 0) { pop, push to component, visit neighbours }
RECURSIVE DFSWhile(_, _, _, _)
DFSWhile(adj, stack, visited, component) ==
    IF stack = <<>> THEN [component |-> component, visited |-> visited]
    ELSE LET currentId == stack[Len(stack)]
             popped == SubSeq(stack, 1, Len(stack) - 1)
             p == PushNeighbors(adj[currentId], popped, visited)
         IN DFSWhile(adj, p.stack, p.visited, Append(component, currentId))

\* A plausible slip: unshift for push, a found component goes to the front.
RECURSIVE Components_Unshift(_, _, _, _, _)
Components_Unshift(stickers, adj, i, visited, found) ==
    IF i > Len(stickers) THEN found
    ELSE IF stickers[i].id \in visited
         THEN Components_Unshift(stickers, adj, i + 1, visited, found)
         ELSE LET d == DFSWhile(adj, <<stickers[i].id>>, visited \cup {stickers[i].id}, <<>>)
              IN Components_Unshift(stickers, adj, i + 1, d.visited,
                            IF Len(d.component) > 1 THEN <<d.component>> \o found
                            ELSE found)

\* stickers.forEach(sticker => { if not visited: one component }), from index i
RECURSIVE Components(_, _, _, _, _)
Components(stickers, adj, i, visited, found) ==
    IF i > Len(stickers) THEN found
    ELSE IF stickers[i].id \in visited
         THEN Components(stickers, adj, i + 1, visited, found)
         ELSE LET d == DFSWhile(adj, <<stickers[i].id>>, visited \cup {stickers[i].id}, <<>>)
              IN Components(stickers, adj, i + 1, d.visited,
                            IF Len(d.component) > 1 THEN Append(found, d.component)
                            ELSE found)

NewFusions(stickers, r) ==
    Components(stickers, FusionAdj(stickers, r), 1, {}, <<>>)

\* A plausible slip: the fusion members are not taken out of the pool.
PotentialChainStickers_KeepFused(stickers, broken, newFusions) ==
    KeepIds(stickers, StickerIds(stickers) \ broken)

\* A plausible slip: the broken links are not taken out of the pool.
PotentialChainStickers_KeepBroken(stickers, broken, newFusions) ==
    KeepIds(stickers, StickerIds(stickers) \ FlatIds(newFusions))

PotentialChainStickers(stickers, broken, newFusions) ==
    KeepIds(stickers, (StickerIds(stickers) \ FlatIds(newFusions)) \ broken)

\* The keys of emojiGroups in insertion order: each emoji at its first sticker.
EmojiKeys(potential) ==
    LET first == Ascending({i \in 1..Len(potential) :
                    \A j \in 1..(i - 1) : potential[j].emoji # potential[i].emoji})
    IN [k \in 1..Len(first) |-> potential[first[k]].emoji]

\* A plausible slip: the stickers are not grouped by their emoji.
EmojiGroup_AnyEmoji(potential, emoji) == potential

\* emojiGroups.get(emoji): the candidates of one emoji, in insertion order
EmojiGroup(potential, emoji) ==
    KeepIds(potential, {potential[i].id : i \in {j \in 1..Len(potential) :
                                                    potential[j].emoji = emoji}})

\* emojiGroups.forEach(group => ...), from key index k
RECURSIVE GroupChains(_, _, _, _, _)
GroupChains(potential, keys, k, r, found) ==
    IF k > Len(keys) THEN found
    ELSE LET group == EmojiGroup(potential, keys[k])
         IN IF Len(group) < 2
            THEN GroupChains(potential, keys, k + 1, r, found)
            ELSE GroupChains(potential, keys, k + 1, r,
                             Components(group, ChainAdj(group, r), 1, {}, found))

NewChains(stickers, broken, newFusions, r) ==
    LET potential == PotentialChainStickers(stickers, broken, newFusions)
    IN GroupChains(potential, EmojiKeys(potential), 1, r, <<>>)

\* A plausible slip: the test of imgRef.current left out.
Detect_IgnoreContainer(stickers, broken, r, imgAvailable) ==
    IF Len(stickers) < 2
    THEN [fusions |-> <<>>, chains |-> <<>>]
    ELSE LET newFusions == NewFusions(stickers, r)
         IN [fusions |-> newFusions,
             chains |-> NewChains(stickers, broken, newFusions, r)]

\* The whole effect: what setFusions and setChains receive.
Detect(stickers, broken, r, imgAvailable) ==
    IF ~imgAvailable \/ Len(stickers) < 2
    THEN [fusions |-> <<>>, chains |-> <<>>]
    ELSE LET newFusions == NewFusions(stickers, r)
         IN [fusions |-> newFusions,
             chains |-> NewChains(stickers, broken, newFusions, r)]

(***************************************************************************)
(* What the render after a state shows.                                    *)
(***************************************************************************)
\* history[historyIndex] ?? null, as "is there a current image"
HasCurrentImage == historyIndex >= 0 /\ historyIndex < Len(history)

\* renderContent mounts the <img ref={imgRef}> unless it returns the error
\* card or the start screen (App.tsx:623-640).
ImgAvailable == error = NoError /\ HasCurrentImage

Event(name, arg) == [name |-> name, arg |-> arg]

\* The error card replaces the editor; the header stays (App.tsx:941-947).
EditorShown == error = NoError /\ HasCurrentImage

\* The start screen is what renderContent returns without a current image.
StartScreenShown == error = NoError /\ ~HasCurrentImage

\* A plausible slip: the editor's controls stay reachable while loading.
Interactive_IgnoreLoading == error = NoError /\ HasCurrentImage

\* The loading overlay covers the editor's content, not the header
\* (App.tsx:815-820): pointer events reach the editor only without it.
Interactive == EditorShown /\ ~isLoading

(***************************************************************************)
(* The binding of the main action button (generateAction) and the effects  *)
(* that set it.                                                            *)
(***************************************************************************)
\* FilterPanel and AdjustmentPanel are rendered inside the editor under their
\* tool (App.tsx:881-896); their state lives as long as they are mounted.
PanelMounted == EditorShown /\ activeTool \in {"filters", "adjust"}

\* useState of part_000:38-40 and AdjustmentPanel.tsx:33-35: the first category
\* with its first preset selected.
MountedPanel == [activeCategory |-> "Presets", selectedPresetPrompt |-> "preset",
                 customPrompt |-> ""]

\* String.prototype.trim on the prompts of the model
Trim(str) == IF str \in {"", " "} THEN "" ELSE str

\* const activePrompt = selectedPresetPrompt || customPrompt; then
\* activePrompt?.trim() ?? ''
ActivePrompt(pnl) ==
    Trim(IF pnl.selectedPresetPrompt \notin {Null, ""}
         THEN pnl.selectedPresetPrompt
         ELSE pnl.customPrompt)

\* onGenerateActionChange(prompt): { action: () => handleApply...(prompt),
\* isEnabled: !!prompt }   (App.tsx:884-886, 892-894)
PanelBinding(tool, pnl) ==
    [tool |-> tool, isEnabled |-> ActivePrompt(pnl) # "", prompt |-> ActivePrompt(pnl)]

\* App.tsx:349-357
StickersBinding(stickers) ==
    [tool |-> "stickers", isEnabled |-> Len(stickers) > 0, prompt |-> ""]

\* App.tsx:359-366
CropBinding(c) ==
    [tool |-> "crop", isEnabled |-> c.set /\ c.width > 0, prompt |-> ""]

\* A render happened: some useState value of App was set to another value.
Rendered ==
    <<history, historyIndex, isLoading, error, activeTool, completedCrop, selectedSticker,
      placedStickers, draggingStickerId, activeStickerId, resizingState, rotatingState,
      fusions, chains, brokenChainLinks>>' #
    <<history, historyIndex, isLoading, error, activeTool, completedCrop, selectedSticker,
      placedStickers, draggingStickerId, activeStickerId, resizingState, rotatingState,
      fusions, chains, brokenChainLinks>>

\* handleApplyStickers is another function (useCallback deps of App.tsx:154,
\* addImageToHistory's at 94) or placedStickers is another array.
StickersActionDeps ==
    <<history, historyIndex, placedStickers, fusions, chains>>' #
    <<history, historyIndex, placedStickers, fusions, chains>>

\* handleApplyCrop is another function (deps of App.tsx:198) or completedCrop
\* is another value.
CropActionDeps ==
    <<history, historyIndex, completedCrop>>' # <<history, historyIndex, completedCrop>>

\* The panel of the render after the step: kept while it stays mounted under
\* the same tool, fresh when it is mounted, gone when it is unmounted.
PanelLifecycle ==
    panel' = IF PanelMounted'
             THEN IF PanelMounted /\ activeTool' = activeTool THEN panel ELSE MountedPanel
             ELSE NoPanel

\* A plausible slip: the sticker action effect does not test the active tool.
BindingEffects_NoToolTest ==
    generateAction' =
        IF activeTool' = "crop" /\ (activeTool' # activeTool \/ CropActionDeps)
        THEN CropBinding(completedCrop')
        ELSE IF activeTool' # activeTool \/ StickersActionDeps
        THEN StickersBinding(placedStickers')
        ELSE IF PanelMounted' /\ Rendered
        THEN PanelBinding(activeTool', panel')
        ELSE generateAction

\* The effects on generateAction that run after the render of a step, in
\* React's order: the effect of a panel (child) before those of App, and
\* App's in the order of their declaration, the last setGenerateAction of the
\* batch being the state of the next render.
\*  - panel effect (part_000:42-44, AdjustmentPanel.tsx:37-39): runs on mount
\*    and after every render of App, onGenerateActionChange being a new
\*    function in every render;
\*  - tool effect (App.tsx:337-346): on a change of activeTool;
\*  - sticker action effect (349-357) and crop action effect (359-366): on a
\*    change of activeTool or of their other dependencies, under their tool.
BindingEffects ==
    generateAction' =
        IF activeTool' = "stickers" /\ (activeTool' # activeTool \/ StickersActionDeps)
        THEN StickersBinding(placedStickers')
        ELSE IF activeTool' = "crop" /\ (activeTool' # activeTool \/ CropActionDeps)
        THEN CropBinding(completedCrop')
        ELSE IF activeTool' # activeTool
        THEN NoAction
        ELSE IF PanelMounted' /\ Rendered
        THEN PanelBinding(activeTool', panel')
        ELSE generateAction

\* Whether the panel's effect is due after the renders of a step.  Its
\* dependency onGenerateActionChange is the inline arrow of App.tsx:884-886 /
\* 892-894, another function in every render of App: while a panel is
\* mounted, the last render of a step leaves the effect due, and no state
\* waits for a render.
PanelEffectSchedule ==
    /\ panelEffectDue' = PanelMounted'
    /\ appRenderDue' = FALSE

\* What follows the render of a step that is not a handler of a panel.
RenderEffects == PanelLifecycle /\ BindingEffects /\ PanelEffectSchedule


\* A plausible slip: >= for >.
CanUndo_Ge == historyIndex >= 0

\* A plausible slip: <= for <.
CanRedo_Le == historyIndex <= Len(history) - 1

\* App.tsx:369-370
CanUndo == historyIndex > 0
CanRedo == historyIndex < Len(history) - 1

\* The effect of App.tsx:212-334 after a render in which placedStickers or
\* brokenChainLinks was set.
DetectionEffect ==
    LET d == Detect(placedStickers', brokenChainLinks', rect', ImgAvailable')
    IN /\ fusions' = d.fusions
       /\ chains' = d.chains

\* A plausible slip: the new file is pushed onto the whole history.
AddImageToHistory_NoSlice(h, i, newImageFile) ==
    /\ history' = Append(h, newImageFile)
    /\ historyIndex' = Len(h)
    /\ completedCrop' = NoCrop
    /\ placedStickers' = <<>>
    /\ selectedSticker' = Null
    /\ activeStickerId' = NoId
    /\ brokenChainLinks' = {}
    /\ activeTool' = "stickers"

\* addImageToHistory in the closure (h, i) it was created in: history.slice(0,
\* historyIndex + 1), push, and the transient state reset.
AddImageToHistory(h, i, newImageFile) ==
    /\ history' = Append(SubSeq(h, 1, i + 1), newImageFile)
    /\ historyIndex' = Len(Append(SubSeq(h, 1, i + 1), newImageFile)) - 1
    /\ completedCrop' = NoCrop
    /\ placedStickers' = <<>>
    /\ selectedSticker' = Null
    /\ activeStickerId' = NoId
    /\ brokenChainLinks' = {}
    /\ activeTool' = "stickers"

(***************************************************************************)
(* The handlers.  A guard is the condition under which the control that    *)
(* calls the handler is rendered and reachable; the body is the handler.   *)
(***************************************************************************)
\* A plausible slip: the load clears only what handleUploadNew clears.
HandleImageUpload_AsUploadNew ==
    /\ StartScreenShown
    /\ nextFile < MaxFiles
    /\ nextFile' = nextFile + 1
    /\ error' = NoError
    /\ history' = <<nextFile + 1>>
    /\ historyIndex' = 0
    /\ placedStickers' = <<>>
    /\ selectedSticker' = Null
    /\ brokenChainLinks' = {}
    /\ lastEvent' = Event("load", nextFile + 1)
    /\ UNCHANGED <<isLoading, activeTool, completedCrop, draggingStickerId, activeStickerId,
                   resizingState, rotatingState, rect, pending, nextId>>
    /\ DetectionEffect
    /\ RenderEffects

\* StartScreen onFileSelect -> handleFileSelect -> handleImageUpload(file)
HandleImageUpload ==
    /\ StartScreenShown
    /\ nextFile < MaxFiles
    /\ nextFile' = nextFile + 1
    /\ error' = NoError
    /\ history' = <<nextFile + 1>>
    /\ historyIndex' = 0
    /\ activeTool' = "stickers"
    /\ completedCrop' = NoCrop
    /\ placedStickers' = <<>>
    /\ selectedSticker' = Null
    /\ activeStickerId' = NoId
    /\ brokenChainLinks' = {}
    /\ lastEvent' = Event("load", nextFile + 1)
    /\ UNCHANGED <<isLoading, draggingStickerId, resizingState, rotatingState,
                   rect, pending, nextId>>
    /\ DetectionEffect
    /\ RenderEffects

\* A plausible slip: "New" leaves the stickers to the next load.
HandleUploadNew_KeepStickers ==
    /\ HasCurrentImage
    /\ history' = <<>>
    /\ historyIndex' = -1
    /\ error' = NoError
    /\ selectedSticker' = Null
    /\ lastEvent' = Event("uploadNew", 0)
    /\ UNCHANGED <<isLoading, activeTool, completedCrop, placedStickers, brokenChainLinks,
                   draggingStickerId, activeStickerId, resizingState, rotatingState, rect,
                   pending, nextId, nextFile, fusions, chains>>
    /\ RenderEffects

\* Header "New" -> handleUploadNew
HandleUploadNew ==
    /\ HasCurrentImage
    /\ history' = <<>>
    /\ historyIndex' = -1
    /\ error' = NoError
    /\ placedStickers' = <<>>
    /\ selectedSticker' = Null
    /\ brokenChainLinks' = {}
    /\ lastEvent' = Event("uploadNew", 0)
    /\ UNCHANGED <<isLoading, activeTool, completedCrop, draggingStickerId,
                   activeStickerId, resizingState, rotatingState, rect, pending,
                   nextId, nextFile>>
    /\ DetectionEffect
    /\ RenderEffects

\* A plausible slip: the undo leaves the broken links.
HandleUndo_KeepBroken ==
    /\ Interactive
    /\ IF CanUndo
       THEN /\ historyIndex' = historyIndex - 1
            /\ placedStickers' = <<>>
       ELSE UNCHANGED <<historyIndex, placedStickers>>
    /\ lastEvent' = Event("undo", 0)
    /\ UNCHANGED <<history, isLoading, error, activeTool, completedCrop, selectedSticker,
                   draggingStickerId, activeStickerId, resizingState, rotatingState,
                   brokenChainLinks, rect, pending, nextId, nextFile>>
    /\ IF CanUndo THEN DetectionEffect ELSE UNCHANGED <<fusions, chains>>
    /\ RenderEffects

\* The undo button: disabled={!canUndo || isLoading}; handleUndo tests canUndo again.
HandleUndo ==
    /\ Interactive
    /\ IF CanUndo
       THEN /\ historyIndex' = historyIndex - 1
            /\ placedStickers' = <<>>
            /\ brokenChainLinks' = {}
       ELSE UNCHANGED <<historyIndex, placedStickers, brokenChainLinks>>
    /\ lastEvent' = Event("undo", 0)
    /\ UNCHANGED <<history, isLoading, error, activeTool, completedCrop, selectedSticker,
                   draggingStickerId, activeStickerId, resizingState, rotatingState,
                   rect, pending, nextId, nextFile>>
    /\ IF CanUndo THEN DetectionEffect ELSE UNCHANGED <<fusions, chains>>
    /\ RenderEffects

\* The redo button: disabled={!canRedo || isLoading}; handleRedo tests canRedo again.
HandleRedo ==
    /\ Interactive
    /\ IF CanRedo
       THEN /\ historyIndex' = historyIndex + 1
            /\ placedStickers' = <<>>
            /\ brokenChainLinks' = {}
       ELSE UNCHANGED <<historyIndex, placedStickers, brokenChainLinks>>
    /\ lastEvent' = Event("redo", 0)
    /\ UNCHANGED <<history, isLoading, error, activeTool, completedCrop, selectedSticker,
                   draggingStickerId, activeStickerId, resizingState, rotatingState,
                   rect, pending, nextId, nextFile>>
    /\ IF CanRedo THEN DetectionEffect ELSE UNCHANGED <<fusions, chains>>
    /\ RenderEffects

\* A plausible slip: the tool effect resets the selection with the crop.
HandleToolSelect_Deselect(tool) ==
    /\ Interactive
    /\ activeTool' = tool
    /\ completedCrop' = IF tool # activeTool /\ tool # "crop" THEN NoCrop ELSE completedCrop
    /\ activeStickerId' = IF tool # activeTool THEN NoId ELSE activeStickerId
    /\ lastEvent' = Event("toolSelect", 0)
    /\ UNCHANGED <<history, historyIndex, isLoading, error, selectedSticker, placedStickers,
                   draggingStickerId, resizingState, rotatingState,
                   fusions, chains, brokenChainLinks, rect, pending, nextId, nextFile>>
    /\ RenderEffects

\* A toolbar button -> handleToolSelect(tool), then the effect of App.tsx:337-346.
HandleToolSelect(tool) ==
    /\ Interactive
    /\ activeTool' = tool
    /\ completedCrop' = IF tool # activeTool /\ tool # "crop" THEN NoCrop ELSE completedCrop
    /\ lastEvent' = Event("toolSelect", 0)
    /\ UNCHANGED <<history, historyIndex, isLoading, error, selectedSticker, placedStickers,
                   draggingStickerId, activeStickerId, resizingState, rotatingState,
                   fusions, chains, brokenChainLinks, rect, pending, nextId, nextFile>>
    /\ RenderEffects

\* ReactCrop onComplete={c => setCompletedCrop(c)}
HandleCropComplete(c) ==
    /\ Interactive
    /\ activeTool = "crop"
    /\ completedCrop' = [set |-> TRUE, width |-> c[1], height |-> c[2]]
    /\ lastEvent' = Event("cropComplete", 0)
    /\ UNCHANGED <<history, historyIndex, isLoading, error, activeTool, selectedSticker,
                   placedStickers, draggingStickerId, activeStickerId, resizingState,
                   rotatingState, fusions, chains, brokenChainLinks, rect, pending,
                   nextId, nextFile>>
    /\ RenderEffects

\* "Apply Crop" (disabled={isLoading || !isCropping}) -> handleApplyCrop.  A canvas
\* of height 0 gives the data URL "data:,", on which dataURLtoFile throws.
HandleApplyCrop ==
    /\ Interactive
    /\ activeTool = "crop"
    /\ completedCrop.set /\ completedCrop.width > 0
    /\ nextFile < MaxFiles
    /\ IF completedCrop.height > 0
       THEN /\ AddImageToHistory(history, historyIndex, nextFile + 1)
            /\ nextFile' = nextFile + 1
       ELSE UNCHANGED <<history, historyIndex, completedCrop, placedStickers,
                        selectedSticker, activeStickerId, brokenChainLinks, activeTool,
                        nextFile>>
    /\ lastEvent' = Event("applyCrop", 0)
    /\ UNCHANGED <<isLoading, error, draggingStickerId, resizingState, rotatingState,
                   rect, pending, nextId>>
    /\ IF completedCrop.height > 0 THEN DetectionEffect ELSE UNCHANGED <<fusions, chains>>
    /\ RenderEffects

(***************************************************************************)
(* What apply-stickers hands to the external call: stickerInputs           *)
(* (App.tsx:106-138) and the descriptions generateStickerImage derives     *)
(* from them for its prompt (StartScreen.tsx:312-348).                     *)
(***************************************************************************)
\* Array.prototype.sort by id on a list of stickers with distinct ids
SortById(stickers) ==
    LET ids == Ascending(StickerIds(stickers))
    IN [k \in 1..Len(ids) |-> StickerOfIn(stickers, ids[k])]

\* A plausible slip: the singles leave out the members of fusions only.
IndividualStickers_FusionsOnly(stickers, fusionLists, chainLists) ==
    KeepIds(stickers, StickerIds(stickers) \ FlatIds(fusionLists))

\* placedStickers.filter(s => !stickerIdsInFusions.has(s.id) &&
\*                            !stickerIdsInChains.has(s.id))
IndividualStickers(stickers, fusionLists, chainLists) ==
    KeepIds(stickers, StickerIds(stickers) \ (FlatIds(fusionLists) \cup FlatIds(chainLists)))

\* [...fusionInputs, ...chainInputs, ...individualInputs]; a single input
\* holds its sticker as a list of one.
StickerInputs(stickers, fusionLists, chainLists) ==
    LET individual == IndividualStickers(stickers, fusionLists, chainLists)
    IN [k \in 1..Len(fusionLists) |->
            [type |-> "fusion",
             stickers |-> SortById(KeepIds(stickers, Range(fusionLists[k])))]]
       \o [k \in 1..Len(chainLists) |->
            [type |-> "chain", stickers |-> KeepIds(stickers, Range(chainLists[k]))]]
       \o [k \in 1..Len(individual) |->
            [type |-> "single", stickers |-> <<individual[k]>>]]

\* stickers.reduce((sum, s) => sum + s.size, 0)
RECURSIVE SumSize(_)
SumSize(stickers) ==
    IF stickers = <<>> THEN 0
    ELSE stickers[1].size + SumSize(Tail(stickers))

\* A plausible slip: > for >= at the upper threshold.
GetSizeCategory_Gt(total, count) ==
    IF total > 180 * count THEN "Huge"
    ELSE IF total >= 128 * count THEN "Large"
    ELSE IF total >= 64 * count THEN "Medium"
    ELSE IF total >= 32 * count THEN "Small"
    ELSE "Tiny"

\* getSizeCategory(size) for the size total / count: a sticker's size
\* (count = 1) or the average size of count stickers, compared exactly.
GetSizeCategory(total, count) ==
    IF total >= 180 * count THEN "Huge"
    ELSE IF total >= 128 * count THEN "Large"
    ELSE IF total >= 64 * count THEN "Medium"
    ELSE IF total >= 32 * count THEN "Small"
    ELSE "Tiny"

\* stickerDescriptions, as far as the size category and the creative impact
\* of each description go (a chain's description names no impact).
StickerDescriptions(inputs) ==
    [k \in 1..Len(inputs) |->
        LET members == inputs[k].stickers
        IN [type |-> inputs[k].type,
            sizeCategory |-> GetSizeCategory(SumSize(members), Len(members)),
            impact |-> IF inputs[k].type = "chain" THEN "" ELSE members[1].impact]]

\* The call a handler of the given kind awaits, with the closure it runs in.
CallOf(kind) ==
    LET inputs == IF kind = "stickers"
                  THEN StickerInputs(placedStickers, fusions, chains)
                  ELSE <<>>
    IN [kind |-> kind, history |-> history, historyIndex |-> historyIndex,
        inputs |-> inputs, descriptions |-> StickerDescriptions(inputs)]

\* The main action button under the stickers tool -> handleApplyStickers, up to
\* its await.  The call keeps the addImageToHistory of this render.
HandleApplyStickers ==
    /\ Interactive
    /\ activeTool = "stickers"
    /\ Len(placedStickers) > 0
    /\ generateAction.isEnabled /\ generateAction.tool = "stickers"
    /\ isLoading' = TRUE
    /\ error' = NoError
    /\ pending' = CallOf("stickers")
    /\ lastEvent' = Event("applyStickers", 0)
    /\ UNCHANGED <<history, historyIndex, activeTool, completedCrop, selectedSticker,
                   placedStickers, draggingStickerId, activeStickerId, resizingState,
                   rotatingState, fusions, chains, brokenChainLinks, rect, nextId, nextFile>>
    /\ RenderEffects

\* The main action button under the filters or adjust tool -> handleApplyFilter /
\* handleApplyAdjustment with the panel's prompt, up to the await.
HandleApplyPrompt ==
    /\ Interactive
    /\ activeTool \in {"filters", "adjust"}
    /\ generateAction.isEnabled /\ generateAction.tool = activeTool
    /\ isLoading' = TRUE
    /\ error' = NoError
    /\ pending' = CallOf(activeTool)
    /\ lastEvent' = Event("applyPrompt", 0)
    /\ UNCHANGED <<history, historyIndex, activeTool, completedCrop, selectedSticker,
                   placedStickers, draggingStickerId, activeStickerId, resizingState,
                   rotatingState, fusions, chains, brokenChainLinks, rect, nextId, nextFile>>
    /\ RenderEffects

\* A plausible slip: the callback handed to the panel is stable (useCallback),
\* so the panel's effect does not run again after the tool effect's reset.
PanelEffect_StableCallback ==
    /\ PanelMounted
    /\ panelEffectDue
    /\ generateAction.tool = activeTool
    /\ generateAction' = PanelBinding(activeTool, panel)
    /\ panelEffectDue' = FALSE
    /\ UNCHANGED appRenderDue
    /\ lastEvent' = Event("panelEffect", 0)
    /\ UNCHANGED <<history, historyIndex, isLoading, error, activeTool, completedCrop,
                   selectedSticker, placedStickers, draggingStickerId, activeStickerId,
                   resizingState, rotatingState, fusions, chains, brokenChainLinks,
                   rect, pending, nextId, nextFile, panel>>

\* The panel's effect after a render of App that no handler of the model
\* caused (the render that follows a setGenerateAction of an effect):
\* useEffect(() => onGenerateActionChange(activePrompt?.trim() ?? ''),
\* [activePrompt, onGenerateActionChange]), the second dependency being the
\* inline arrow of App.tsx:884-886 / 892-894, new in every render.  The call
\* stores a new { action, isEnabled } object, a state App has to render.
PanelEffect ==
    /\ PanelMounted
    /\ panelEffectDue
    /\ generateAction' = PanelBinding(activeTool, panel)
    /\ panelEffectDue' = FALSE
    /\ appRenderDue' = TRUE
    /\ lastEvent' = Event("panelEffect", 0)
    /\ UNCHANGED <<history, historyIndex, isLoading, error, activeTool, completedCrop,
                   selectedSticker, placedStickers, draggingStickerId, activeStickerId,
                   resizingState, rotatingState, fusions, chains, brokenChainLinks,
                   rect, pending, nextId, nextFile, panel>>

\* App renders the generateAction object the panel's effect stored (no
\* useState value of the model changes) and hands the mounted panel the
\* inline arrow of this render (App.tsx:884-886 / 892-894): a dependency of
\* the panel's effect changed.
AppRender ==
    /\ appRenderDue
    /\ appRenderDue' = FALSE
    /\ panelEffectDue' = PanelMounted
    /\ lastEvent' = Event("render", 0)
    /\ UNCHANGED <<history, historyIndex, isLoading, error, activeTool, completedCrop,
                   selectedSticker, placedStickers, draggingStickerId, activeStickerId,
                   resizingState, rotatingState, fusions, chains, brokenChainLinks,
                   rect, pending, nextId, nextFile, generateAction, panel>>

\* What a handler of the mounted panel leaves alone, and the panel's effect
\* after its render.
PanelHandlerFrame ==
    /\ generateAction' = PanelBinding(activeTool, panel')
    /\ panelEffectDue' = TRUE
    /\ appRenderDue' = FALSE
    /\ UNCHANGED <<history, historyIndex, isLoading, error, activeTool, completedCrop,
                   selectedSticker, placedStickers, draggingStickerId, activeStickerId,
                   resizingState, rotatingState, fusions, chains, brokenChainLinks,
                   rect, pending, nextId, nextFile>>

\* A category button of the panel -> handleCategoryClick (part_000:46-56,
\* AdjustmentPanel.tsx:41-51); "Presets" stands for a category with presets.
HandleCategoryClick(category) ==
    /\ Interactive
    /\ PanelMounted
    /\ panel' = IF category # "Custom"
                THEN [activeCategory |-> category, selectedPresetPrompt |-> "preset",
                      customPrompt |-> ""]
                ELSE [panel EXCEPT !.activeCategory = category,
                                   !.selectedPresetPrompt = Null]
    /\ lastEvent' = Event("categoryClick", 0)
    /\ PanelHandlerFrame

\* A preset button, drawn under a category with presets -> handlePresetClick
HandlePresetClick(prompt) ==
    /\ Interactive
    /\ PanelMounted
    /\ panel.activeCategory # "Custom"
    /\ panel' = [panel EXCEPT !.selectedPresetPrompt = prompt, !.customPrompt = ""]
    /\ lastEvent' = Event("presetClick", 0)
    /\ PanelHandlerFrame

\* Typing in the input drawn under the Custom category -> handleCustomChange
HandleCustomChange(value) ==
    /\ Interactive
    /\ PanelMounted
    /\ panel.activeCategory = "Custom"
    /\ panel' = [panel EXCEPT !.customPrompt = value, !.selectedPresetPrompt = Null]
    /\ lastEvent' = Event("customChange", 0)
    /\ PanelHandlerFrame


\* A plausible slip: setIsLoading(false) at the end of the catch block, not in
\* a finally block.
CallSucceeds_BusyKept ==
    /\ pending.kind # "none"
    /\ nextFile < MaxFiles
    /\ AddImageToHistory(pending.history, pending.historyIndex, nextFile + 1)
    /\ nextFile' = nextFile + 1
    /\ pending' = NoCall
    /\ lastEvent' = Event("callSucceeds", nextFile + 1)
    /\ UNCHANGED <<isLoading, error, draggingStickerId, resizingState, rotatingState,
                   rect, nextId>>
    /\ DetectionEffect
    /\ RenderEffects

\* The awaited call resolves with a decodable image: addImageToHistory(newImageFile)
\* of the closure, then finally setIsLoading(false).
CallSucceeds ==
    /\ pending.kind # "none"
    /\ nextFile < MaxFiles
    /\ AddImageToHistory(pending.history, pending.historyIndex, nextFile + 1)
    /\ nextFile' = nextFile + 1
    /\ isLoading' = FALSE
    /\ pending' = NoCall
    /\ lastEvent' = Event("callSucceeds", nextFile + 1)
    /\ UNCHANGED <<error, draggingStickerId, resizingState, rotatingState, rect, nextId>>
    /\ DetectionEffect
    /\ RenderEffects

\* The operation as the catch block names it (App.tsx:148, 399, 421).
OperationName(kind) ==
    IF kind = "stickers" THEN "stickers"
    ELSE IF kind = "filters" THEN "filter" ELSE "adjustment"

\* A plausible slip: no finally block.
CallFails_NoFinally ==
    /\ pending.kind # "none"
    /\ error' = "Failed to apply the " \o OperationName(pending.kind) \o ". "
    /\ pending' = NoCall
    /\ lastEvent' = Event("callFails", 0)
    /\ UNCHANGED <<history, historyIndex, isLoading, activeTool, completedCrop,
                   selectedSticker, placedStickers, draggingStickerId, activeStickerId,
                   resizingState, rotatingState, fusions, chains, brokenChainLinks, rect,
                   nextId, nextFile>>
    /\ RenderEffects

\* The awaited call rejects, or dataURLtoFile throws on its result: catch, finally.
CallFails ==
    /\ pending.kind # "none"
    /\ error' = "Failed to apply the " \o OperationName(pending.kind) \o ". "
    /\ isLoading' = FALSE
    /\ pending' = NoCall
    /\ lastEvent' = Event("callFails", 0)
    /\ UNCHANGED <<history, historyIndex, activeTool, completedCrop, selectedSticker,
                   placedStickers, draggingStickerId, activeStickerId, resizingState,
                   rotatingState, fusions, chains, brokenChainLinks, rect, nextId, nextFile>>
    /\ RenderEffects

\* "Try Again" on the error card: setError(null)
DismissError ==
    /\ error # NoError
    /\ error' = NoError
    /\ lastEvent' = Event("dismissError", 0)
    /\ UNCHANGED <<history, historyIndex, isLoading, activeTool, completedCrop,
                   selectedSticker, placedStickers, draggingStickerId, activeStickerId,
                   resizingState, rotatingState, fusions, chains, brokenChainLinks,
                   rect, pending, nextId, nextFile>>
    /\ RenderEffects

\* StickerPanel handleStickerClick: selecting the selected emoji toggles it to ''.
HandleStickerClick(emoji) ==
    /\ Interactive
    /\ activeTool = "stickers"
    /\ selectedSticker' = IF selectedSticker = emoji THEN "" ELSE emoji
    /\ lastEvent' = Event("stickerSelect", 0)
    /\ UNCHANGED <<history, historyIndex, isLoading, error, activeTool, completedCrop,
                   placedStickers, draggingStickerId, activeStickerId, resizingState,
                   rotatingState, fusions, chains, brokenChainLinks, rect, pending,
                   nextId, nextFile>>
    /\ RenderEffects

\* A plausible slip: [newSticker, ...prev] for [...prev, newSticker].
HandleImageClick_Prepend(pos, maxIds) ==
    /\ Interactive
    /\ activeTool = "stickers"
    /\ IF selectedSticker \notin {Null, ""}
       THEN /\ nextId < maxIds
            /\ nextId' = nextId + 1
            /\ placedStickers' =
                    <<[id |-> nextId + 1, emoji |-> selectedSticker, x |-> pos[1],
                       y |-> pos[2], size |-> DefaultSize, rotation |-> 0,
                       impact |-> "artistic"]>> \o placedStickers
            /\ UNCHANGED brokenChainLinks
            /\ UNCHANGED activeStickerId
       ELSE /\ activeStickerId' = NoId
            /\ UNCHANGED <<nextId, placedStickers, brokenChainLinks>>
    /\ lastEvent' = Event("imageClick", 0)
    /\ UNCHANGED <<history, historyIndex, isLoading, error, activeTool, completedCrop,
                   selectedSticker, draggingStickerId, resizingState, rotatingState,
                   rect, pending, nextFile>>
    /\ IF selectedSticker \notin {Null, ""} THEN DetectionEffect ELSE UNCHANGED <<fusions, chains>>
    /\ RenderEffects

\* A click on the image at the percentage position pos -> handleImageClick;
\* maxIds bounds the ids the model hands out.
HandleImageClick(pos, maxIds) ==
    /\ Interactive
    /\ activeTool = "stickers"
    /\ IF selectedSticker \notin {Null, ""}
       THEN /\ nextId < maxIds
            /\ nextId' = nextId + 1
            /\ placedStickers' = Append(placedStickers,
                    [id |-> nextId + 1, emoji |-> selectedSticker, x |-> pos[1],
                     y |-> pos[2], size |-> DefaultSize, rotation |-> 0,
                     impact |-> "artistic"])
            /\ UNCHANGED brokenChainLinks
            /\ UNCHANGED activeStickerId
       ELSE /\ activeStickerId' = NoId
            /\ UNCHANGED <<nextId, placedStickers, brokenChainLinks>>
    /\ lastEvent' = Event("imageClick", 0)
    /\ UNCHANGED <<history, historyIndex, isLoading, error, activeTool, completedCrop,
                   selectedSticker, draggingStickerId, resizingState, rotatingState,
                   rect, pending, nextFile>>
    /\ IF selectedSticker \notin {Null, ""} THEN DetectionEffect ELSE UNCHANGED <<fusions, chains>>
    /\ RenderEffects

\* The stickers are drawn over the image unless the crop tool is active.
StickersShown == Interactive /\ activeTool # "crop"

\* onMouseDown on a sticker -> handleStickerMouseDown
HandleStickerMouseDown(stickerId) ==
    /\ StickersShown
    /\ stickerId \in StickerIds(placedStickers)
    /\ activeStickerId' = stickerId
    /\ draggingStickerId' = stickerId
    /\ lastEvent' = Event("stickerMouseDown", stickerId)
    /\ UNCHANGED <<history, historyIndex, isLoading, error, activeTool, completedCrop,
                   selectedSticker, placedStickers, resizingState, rotatingState,
                   fusions, chains, brokenChainLinks, rect, pending, nextId, nextFile>>
    /\ RenderEffects

\* A plausible slip: the deleted sticker stays the active one.
DeleteSticker_KeepActive(stickerId) ==
    /\ placedStickers' = KeepIds(placedStickers, StickerIds(placedStickers) \ {stickerId})
    /\ UNCHANGED <<activeStickerId, brokenChainLinks>>
    /\ DetectionEffect

\* handleDeleteSticker(stickerId)
DeleteSticker(stickerId) ==
    /\ placedStickers' = KeepIds(placedStickers, StickerIds(placedStickers) \ {stickerId})
    /\ activeStickerId' = NoId
    /\ UNCHANGED brokenChainLinks
    /\ DetectionEffect

\* The delete handle of the active sticker (App.tsx:741-750)
HandleDeleteClick ==
    /\ StickersShown
    /\ activeStickerId \in StickerIds(placedStickers)
    /\ lastEvent' = Event("delete", activeStickerId)
    /\ UNCHANGED <<history, historyIndex, isLoading, error, activeTool, completedCrop,
                   selectedSticker, draggingStickerId, resizingState, rotatingState,
                   rect, pending, nextId, nextFile>>
    /\ DeleteSticker(activeStickerId)
    /\ RenderEffects

\* The window keydown listener (App.tsx:441-451): Delete or Backspace
HandleKeyDown ==
    /\ activeStickerId # NoId
    /\ lastEvent' = Event("keyDelete", activeStickerId)
    /\ UNCHANGED <<history, historyIndex, isLoading, error, activeTool, completedCrop,
                   selectedSticker, draggingStickerId, resizingState, rotatingState,
                   rect, pending, nextId, nextFile>>
    /\ DeleteSticker(activeStickerId)
    /\ RenderEffects

\* The break handle, drawn on the active sticker while a chain holds it
\* (App.tsx:760-771) -> handleBreakChainLink
HandleBreakChainLink ==
    /\ StickersShown
    /\ activeStickerId \in StickerIds(placedStickers)
    /\ activeStickerId \in FlatIds(chains)
    /\ brokenChainLinks' = brokenChainLinks \cup {activeStickerId}
    /\ UNCHANGED placedStickers
    /\ lastEvent' = Event("breakChainLink", activeStickerId)
    /\ UNCHANGED <<history, historyIndex, isLoading, error, activeTool, completedCrop,
                   selectedSticker, draggingStickerId, activeStickerId, resizingState,
                   rotatingState, rect, pending, nextId, nextFile>>
    /\ DetectionEffect
    /\ RenderEffects

\* onMouseDown on the resize handle of the active sticker, the pointer at clientX
\* (in half pixels: MouseEvent.clientX is a double)
\* -> handleResizeHandleMouseDown
HandleResizeHandleMouseDown(clientX) ==
    /\ StickersShown
    /\ activeStickerId \in StickerIds(placedStickers)
    /\ draggingStickerId' = NoId
    /\ resizingState' = [active |-> TRUE, startX |-> clientX,
                         initialSize |-> StickerOfIn(placedStickers, activeStickerId).size]
    /\ lastEvent' = Event("resizeMouseDown", activeStickerId)
    /\ UNCHANGED <<history, historyIndex, isLoading, error, activeTool, completedCrop,
                   selectedSticker, placedStickers, activeStickerId, rotatingState,
                   fusions, chains, brokenChainLinks, rect, pending, nextId, nextFile>>
    /\ RenderEffects

\* onMouseDown on the rotation handle of the active sticker, the pointer at the
\* angle startAngle (in degrees) around the sticker's centre
\* -> handleRotationHandleMouseDown
HandleRotationHandleMouseDown(startAngle) ==
    /\ StickersShown
    /\ activeStickerId \in StickerIds(placedStickers)
    /\ rotatingState' = [active |-> TRUE, startAngle |-> startAngle,
                         initialRotation |-> StickerOfIn(placedStickers, activeStickerId).rotation]
    /\ draggingStickerId' = NoId
    /\ lastEvent' = Event("rotateMouseDown", activeStickerId)
    /\ UNCHANGED <<history, historyIndex, isLoading, error, activeTool, completedCrop,
                   selectedSticker, placedStickers, activeStickerId, resizingState,
                   fusions, chains, brokenChainLinks, rect, pending, nextId, nextFile>>
    /\ RenderEffects

\* Math.round of a value given in half pixels: floor(v + 0.5)
Round(halves) == (halves + 1) \div 2

\* A plausible slip: the upper limit is left out.
Clamp_LowOnly(lo, hi, v) == IF v < lo THEN lo ELSE v

\* A plausible slip: the lower limit is left out.
Clamp_HighOnly(lo, hi, v) == IF v > hi THEN hi ELSE v

\* Math.max(lo, Math.min(hi, v))
Clamp(lo, hi, v) == IF v < lo THEN lo ELSE IF v > hi THEN hi ELSE v

\* A plausible slip: the map leaves out the test of the id.
WithRotation_EverySticker(stickers, id, rotation) ==
    [i \in 1..Len(stickers) |-> [stickers[i] EXCEPT !.rotation = rotation]]

\* stickers.map(s => s.id === id ? { ...s, rotation } : s)
WithRotation(stickers, id, rotation) ==
    [i \in 1..Len(stickers) |->
        IF stickers[i].id = id THEN [stickers[i] EXCEPT !.rotation = rotation] ELSE stickers[i]]

\* stickers.map(s => s.id === id ? { ...s, size } : s)
WithSize(stickers, id, size) ==
    [i \in 1..Len(stickers) |->
        IF stickers[i].id = id THEN [stickers[i] EXCEPT !.size = size] ELSE stickers[i]]

\* stickers.map(s => s.id === id ? { ...s, x, y } : s)
WithPosition(stickers, id, x, y) ==
    [i \in 1..Len(stickers) |->
        IF stickers[i].id = id THEN [stickers[i] EXCEPT !.x = x, !.y = y] ELSE stickers[i]]

\* Which branch of handleImageContainerMouseMove sets placedStickers.
MoveRotates ==
    /\ rotatingState.active /\ activeStickerId # NoId
    /\ activeStickerId \in StickerIds(placedStickers)
MoveResizes ==
    /\ ~(rotatingState.active /\ activeStickerId # NoId)
    /\ resizingState.active /\ activeStickerId # NoId
MoveDrags ==
    /\ ~(rotatingState.active /\ activeStickerId # NoId)
    /\ ~(resizingState.active /\ activeStickerId # NoId)
    /\ draggingStickerId # NoId

\* onMouseMove on the image container, the pointer at (clientX, clientY) half px from
\* the image's corner and at the angle currentAngle (degrees) around the active
\* sticker -> handleImageContainerMouseMove
HandleImageContainerMouseMove(clientX, clientY, currentAngle) ==
    /\ StickersShown
    /\ placedStickers' =
        IF MoveRotates
        THEN WithRotation(placedStickers, activeStickerId,
                rotatingState.initialRotation + (currentAngle - rotatingState.startAngle))
        ELSE IF MoveResizes
        THEN WithSize(placedStickers, activeStickerId,
                Clamp(MinSize, MaxSize,
                      Round(2 * resizingState.initialSize + (clientX - resizingState.startX))))
        ELSE IF MoveDrags
        THEN WithPosition(placedStickers, draggingStickerId,
                Clamp(0, 100, (clientX * 100) \div (2 * rect.width)),
                Clamp(0, 100, (clientY * 100) \div (2 * rect.height)))
        ELSE placedStickers
    /\ lastEvent' = Event("mouseMove", clientX)
    /\ UNCHANGED <<history, historyIndex, isLoading, error, activeTool, completedCrop,
                   selectedSticker, draggingStickerId, activeStickerId, resizingState,
                   rotatingState, brokenChainLinks, rect, pending, nextId, nextFile>>
    /\ IF MoveRotates \/ MoveResizes \/ MoveDrags
       THEN DetectionEffect ELSE UNCHANGED <<fusions, chains>>
    /\ RenderEffects

\* A plausible slip: the mouse up ends the drag only.
HandleImageContainerMouseUp_DragOnly ==
    /\ EditorShown /\ activeTool # "crop"
    /\ draggingStickerId' = NoId
    /\ lastEvent' = Event("mouseUp", 0)
    /\ UNCHANGED <<history, historyIndex, isLoading, error, activeTool, completedCrop,
                   selectedSticker, placedStickers, activeStickerId, resizingState,
                   rotatingState, fusions, chains, brokenChainLinks, rect, pending, nextId,
                   nextFile>>
    /\ RenderEffects

\* onMouseUp / onMouseLeave on the image container -> handleImageContainerMouseUp
HandleImageContainerMouseUp ==
    /\ EditorShown /\ activeTool # "crop"
    /\ draggingStickerId' = NoId
    /\ resizingState' = NoResize
    /\ rotatingState' = NoRotate
    /\ lastEvent' = Event("mouseUp", 0)
    /\ UNCHANGED <<history, historyIndex, isLoading, error, activeTool, completedCrop,
                   selectedSticker, placedStickers, activeStickerId, fusions, chains,
                   brokenChainLinks, rect, pending, nextId, nextFile>>
    /\ RenderEffects

\* stickers.map(s => s.id === id ? { ...s, impact } : s)
WithImpact(stickers, id, impact) ==
    [i \in 1..Len(stickers) |->
        IF stickers[i].id = id THEN [stickers[i] EXCEPT !.impact = impact] ELSE stickers[i]]

\* A creative-impact button of the active sticker (App.tsx:727-735)
\* -> handleImpactChange(sticker.id, level)
HandleImpactChange(level) ==
    /\ StickersShown
    /\ activeStickerId \in StickerIds(placedStickers)
    /\ placedStickers' = WithImpact(placedStickers, activeStickerId, level)
    /\ lastEvent' = Event("impactChange", activeStickerId)
    /\ UNCHANGED <<history, historyIndex, isLoading, error, activeTool, completedCrop,
                   selectedSticker, draggingStickerId, activeStickerId, resizingState,
                   rotatingState, brokenChainLinks, rect, pending, nextId, nextFile>>
    /\ DetectionEffect
    /\ RenderEffects

(***************************************************************************)
(* Spec: the editor from its first render.                                 *)
(***************************************************************************)
ClickPositions == {<<5, 5>>}
CropRegions == {<<10, 10>>, <<10, 0>>}
PanelEmojis == {"A"}

Init ==
    /\ history = <<>>
    /\ historyIndex = -1
    /\ isLoading = FALSE
    /\ error = NoError
    /\ activeTool = "stickers"
    /\ completedCrop = NoCrop
    /\ selectedSticker = Null
    /\ placedStickers = <<>>
    /\ draggingStickerId = NoId
    /\ activeStickerId = NoId
    /\ resizingState = NoResize
    /\ rotatingState = NoRotate
    /\ fusions = <<>>
    /\ chains = <<>>
    /\ brokenChainLinks = {}
    /\ rect = [width |-> 1000, height |-> 1000]
    /\ pending = NoCall
    /\ nextId = 0
    /\ nextFile = 0
    /\ generateAction = StickersBinding(placedStickers)
    /\ panel = NoPanel
    /\ panelEffectDue = FALSE
    /\ appRenderDue = FALSE
    /\ lastEvent = Event("init", 0)

Next ==
    \/ HandleImageUpload
    \/ HandleUploadNew
    \/ HandleUndo
    \/ HandleRedo
    \/ \E tool \in Tools : HandleToolSelect(tool)
    \/ \E c \in CropRegions : HandleCropComplete(c)
    \/ HandleApplyCrop
    \/ HandleApplyStickers
    \/ HandleApplyPrompt
    \/ PanelEffect
    \/ AppRender
    \/ CallSucceeds
    \/ CallFails
    \/ DismissError
    \/ \E emoji \in PanelEmojis : HandleStickerClick(emoji)
    \/ \E pos \in ClickPositions : HandleImageClick(pos, MaxIds)
    \/ \E id \in 1..MaxIds : HandleStickerMouseDown(id)
    \/ HandleDeleteClick
    \/ HandleKeyDown
    \/ HandleBreakChainLink

Spec == Init /\ [][Next]_vars

(***************************************************************************)
(* SpecStickers: the sticker operations on one document, from the state    *)
(* after a load and one commit, with the steps that reset the markers.     *)
(***************************************************************************)
\* Sticker ids handed out in one run of SpecStickers.
MaxStickerIds == 3

StickerClickPositions == {<<5, 5>>}
\* Pointer positions of a mouse move, half px from the image's corner.
MovePoints == {<<0, 0>>, <<100, 100>>}
\* Pointer x of a mouse down on the resize handle.
ResizeStartXs == {200}

InitStickers ==
    /\ history = <<1, 2>>
    /\ historyIndex = 1
    /\ isLoading = FALSE
    /\ error = NoError
    /\ activeTool = "stickers"
    /\ completedCrop = NoCrop
    /\ selectedSticker = Null
    /\ placedStickers = <<>>
    /\ draggingStickerId = NoId
    /\ activeStickerId = NoId
    /\ resizingState = NoResize
    /\ rotatingState = NoRotate
    /\ fusions = <<>>
    /\ chains = <<>>
    /\ brokenChainLinks = {}
    /\ rect = [width |-> 1000, height |-> 1000]
    /\ pending = NoCall
    /\ nextId = 0
    /\ nextFile = 2
    /\ generateAction = StickersBinding(placedStickers)
    /\ panel = NoPanel
    /\ panelEffectDue = FALSE
    /\ appRenderDue = FALSE
    /\ lastEvent = Event("init", 0)

NextStickers ==
    \/ \E emoji \in PanelEmojis : HandleStickerClick(emoji)
    \/ \E pos \in StickerClickPositions : HandleImageClick(pos, MaxStickerIds)
    \/ \E id \in 1..MaxStickerIds : HandleStickerMouseDown(id)
    \/ \E x \in ResizeStartXs : HandleResizeHandleMouseDown(x)
    \/ \E p \in MovePoints : HandleImageContainerMouseMove(p[1], p[2], 0)
    \/ HandleImageContainerMouseUp
    \/ HandleDeleteClick
    \/ HandleBreakChainLink
    \/ HandleUndo

SpecStickers == InitStickers /\ [][NextStickers]_vars

(***************************************************************************)
(* SpecEdits: the editor without external calls: every history operation   *)
(* that runs synchronously and every sticker operation, from the state     *)
(* after a load and one commit.  The pointer inputs are few: a drag to one *)
(* other position, a resize by one deltaX, a rotation by one angle.        *)
(***************************************************************************)
\* Sticker ids handed out in one run of SpecEdits.
MaxEditIds == 2
\* Largest rotation (degrees, either direction) a rotate gesture is followed to.
MaxRotation == 90

EditClickPositions == {<<0, 0>>}
\* Pointer position of a mouse move, half px from the image's corner.
EditPoints == {<<1200, 1200>>}
\* Pointer x of a mouse down on the resize handle: the move is at deltaX = 0.
EditResizeStartXs == {1200}
\* Pointer angles around the sticker's centre, in degrees.
EditStartAngles == {90}
EditAngles == {90}
EditImpacts == {"total"}
EditTools == {"stickers", "crop"}
EditCropRegions == {<<10, 10>>}

\* After a load, one commit and the choice of an emoji in the sticker panel.
InitEdits ==
    /\ history = <<1, 2>>
    /\ historyIndex = 1
    /\ isLoading = FALSE
    /\ error = NoError
    /\ activeTool = "stickers"
    /\ completedCrop = NoCrop
    /\ selectedSticker = "A"
    /\ placedStickers = <<>>
    /\ draggingStickerId = NoId
    /\ activeStickerId = NoId
    /\ resizingState = NoResize
    /\ rotatingState = NoRotate
    /\ fusions = <<>>
    /\ chains = <<>>
    /\ brokenChainLinks = {}
    /\ rect = [width |-> 1000, height |-> 1000]
    /\ pending = NoCall
    /\ nextId = 0
    /\ nextFile = 2
    /\ generateAction = StickersBinding(placedStickers)
    /\ panel = NoPanel
    /\ panelEffectDue = FALSE
    /\ appRenderDue = FALSE
    /\ lastEvent = Event("stickerSelect", 0)

\* The rotation a mouse move at the angle a would set is one the model follows.
RotationWithin(a) ==
    MoveRotates =>
        LET r == rotatingState.initialRotation + (a - rotatingState.startAngle)
        IN r <= MaxRotation /\ -r <= MaxRotation

NextEdits ==
    \/ HandleImageUpload
    \/ HandleUploadNew
    \/ HandleUndo
    \/ HandleRedo
    \/ \E tool \in EditTools : HandleToolSelect(tool)
    \/ \E c \in EditCropRegions : HandleCropComplete(c)
    \/ HandleApplyCrop
    \/ \E pos \in EditClickPositions : HandleImageClick(pos, MaxEditIds)
    \/ \E id \in 1..MaxEditIds : HandleStickerMouseDown(id)
    \/ \E x \in EditResizeStartXs : HandleResizeHandleMouseDown(x)
    \/ \E a \in EditStartAngles : HandleRotationHandleMouseDown(a)
    \/ \E p \in EditPoints, a \in EditAngles :
            RotationWithin(a) /\ HandleImageContainerMouseMove(p[1], p[2], a)
    \/ HandleImageContainerMouseUp
    \/ \E level \in EditImpacts : HandleImpactChange(level)
    \/ HandleDeleteClick
    \/ HandleKeyDown
    \/ HandleBreakChainLink

SpecEdits == InitEdits /\ [][NextEdits]_vars

(***************************************************************************)
(* SpecResize: placing, dragging, resizing and deleting stickers on one    *)
(* document.  A resize begins at x = 100 px; the moves are at deltaX =     *)
(* -100, -0.5 and +500 px.                                                 *)
(***************************************************************************)
\* Sticker ids handed out in one run of SpecResize.
MaxResizeIds == 2

ResizeClickPositions == {<<0, 0>>}
ResizeBeginXs == {200}
ResizePoints == {<<0, 0>>, <<199, 199>>, <<1200, 1200>>}

NextResize ==
    \/ \E pos \in ResizeClickPositions : HandleImageClick(pos, MaxResizeIds)
    \/ \E id \in 1..MaxResizeIds : HandleStickerMouseDown(id)
    \/ \E x \in ResizeBeginXs : HandleResizeHandleMouseDown(x)
    \/ \E p \in ResizePoints : HandleImageContainerMouseMove(p[1], p[2], 0)
    \/ HandleImageContainerMouseUp
    \/ HandleDeleteClick

SpecResize == InitEdits /\ [][NextResize]_vars

(***************************************************************************)
(* SpecBuilder: the detection effect as a function of its inputs.  Init    *)
(* draws the sticker list, the broken links and the container rectangle;   *)
(* the one action runs the effect.                                         *)
(***************************************************************************)
\* On the 1000 px rectangle the three positions are 50 px apart in a row (an
\* overlap needs sizes above 50 + 50); on the 3000 px rectangle 150 px (a
\* connection needs sizes above 50 + 50, the ends are out of reach).
BuilderPlacements ==
    {[pos |-> <<0, 0>>, size |-> 50], [pos |-> <<3, 4>>, size |-> 50],
     [pos |-> <<3, 4>>, size |-> 56], [pos |-> <<6, 8>>, size |-> 50]}
BuilderRects == {[width |-> 1000, height |-> 1000], [width |-> 3000, height |-> 3000]}

BuilderProtos == [emoji : Emojis, at : BuilderPlacements]

BuilderStickers(f) ==
    [i \in DOMAIN f |->
        [id |-> i, emoji |-> f[i].emoji, x |-> f[i].at.pos[1], y |-> f[i].at.pos[2],
         size |-> f[i].at.size, rotation |-> 0, impact |-> "artistic"]]

BuilderInputs ==
    UNION {{BuilderStickers(f) : f \in [1..n -> BuilderProtos]} :
                n \in 0..MaxBuilderStickers}

InitBuilder ==
    /\ history = <<1>>
    /\ historyIndex = 0
    /\ isLoading = FALSE
    /\ error = NoError
    /\ activeTool = "stickers"
    /\ completedCrop = NoCrop
    /\ selectedSticker = Null
    /\ placedStickers \in BuilderInputs
    /\ draggingStickerId = NoId
    /\ activeStickerId = NoId
    /\ resizingState = NoResize
    /\ rotatingState = NoRotate
    /\ fusions = <<>>
    /\ chains = <<>>
    /\ brokenChainLinks \in SUBSET StickerIds(placedStickers)
    /\ rect \in BuilderRects
    /\ pending = NoCall
    /\ nextId = Len(placedStickers)
    /\ nextFile = 1
    /\ generateAction = StickersBinding(placedStickers)
    /\ panel = NoPanel
    /\ panelEffectDue = FALSE
    /\ appRenderDue = FALSE
    /\ lastEvent = Event("init", 0)

\* The effect of App.tsx:212-334 running once.
RunDetection ==
    /\ lastEvent.name = "init"
    /\ LET d == Detect(placedStickers, brokenChainLinks, rect, ImgAvailable)
       IN /\ fusions' = d.fusions
          /\ chains' = d.chains
    /\ lastEvent' = Event("detect", 0)
    /\ UNCHANGED <<history, historyIndex, isLoading, error, activeTool, completedCrop,
                   selectedSticker, placedStickers, draggingStickerId, activeStickerId,
                   resizingState, rotatingState, brokenChainLinks, rect, pending,
                   nextId, nextFile>>
    /\ RenderEffects

\* A plausible slip: the effect adds its result to the stored lists
\* (setFusions(prev => [...prev, ...newFusions])).
RunDetectionAgain_Accumulate ==
    /\ lastEvent.name = "detect"
    /\ LET d == Detect(placedStickers, brokenChainLinks, rect, ImgAvailable)
       IN /\ fusions' = fusions \o d.fusions
          /\ chains' = chains \o d.chains
    /\ lastEvent' = Event("detectAgain", 0)
    /\ UNCHANGED <<history, historyIndex, isLoading, error, activeTool, completedCrop,
                   selectedSticker, placedStickers, draggingStickerId, activeStickerId,
                   resizingState, rotatingState, brokenChainLinks, rect, pending,
                   nextId, nextFile>>
    /\ RenderEffects

\* The effect of App.tsx:212-334 running a second time on the same stickers,
\* broken links and container, with the lists its first run stored.
RunDetectionAgain ==
    /\ lastEvent.name = "detect"
    /\ LET d == Detect(placedStickers, brokenChainLinks, rect, ImgAvailable)
       IN /\ fusions' = d.fusions
          /\ chains' = d.chains
    /\ lastEvent' = Event("detectAgain", 0)
    /\ UNCHANGED <<history, historyIndex, isLoading, error, activeTool, completedCrop,
                   selectedSticker, placedStickers, draggingStickerId, activeStickerId,
                   resizingState, rotatingState, brokenChainLinks, rect, pending,
                   nextId, nextFile>>
    /\ RenderEffects

NextBuilder ==
    \/ RunDetection
    \/ RunDetectionAgain

SpecBuilder == InitBuilder /\ [][NextBuilder]_vars

(***************************************************************************)
(* The relationship graphs as the specification states them, for the       *)
(* claims about the builder.                                               *)
(***************************************************************************)
StickerOf(id) == placedStickers[CHOOSE i \in 1..Len(placedStickers) : placedStickers[i].id = id]

\* overlaps: distance < sizeA/2 + sizeB/2, different tags, different ids
OverlapEdge(a, b) ==
    /\ a # b
    /\ StickerOf(a).emoji # StickerOf(b).emoji
    /\ 4 * DistanceSq(StickerOf(a), StickerOf(b), rect)
            < (StickerOf(a).size + StickerOf(b).size) * (StickerOf(a).size + StickerOf(b).size)

\* connects: equal tags and distance < (sizeA + sizeB)/2 * 3
ConnectEdge(a, b) ==
    /\ a # b
    /\ StickerOf(a).emoji = StickerOf(b).emoji
    /\ 4 * DistanceSq(StickerOf(a), StickerOf(b), rect)
            < 9 * (StickerOf(a).size + StickerOf(b).size) * (StickerOf(a).size + StickerOf(b).size)

\* The vertices a path of edges joins to a vertex of S.
RECURSIVE Grow(_, _)
Grow(S, edges) ==
    LET T == S \cup {e[2] : e \in {d \in edges : d[1] \in S}}
    IN IF T = S THEN S ELSE Grow(T, edges)

\* The connected components with at least 2 members.
ComponentsGE2(vertices, edges) ==
    {C \in {Grow({v}, edges) : v \in vertices} : Cardinality(C) >= 2}

ComponentSets(components) == {Range(components[i]) : i \in 1..Len(components)}

\* A list of components that lists no component and no member twice.
NoRepeats(components) ==
    /\ \A i \in 1..Len(components) : Cardinality(Range(components[i])) = Len(components[i])
    /\ \A i, j \in 1..Len(components) :
            i # j => Range(components[i]) \cap Range(components[j]) = {}

PlacedIds == StickerIds(placedStickers)

\* C7: each marker id occurs in at most one fusion component and in at most
\* one chain component, and no marker id occurs in both a fusion and a chain.
C7_ComponentsDisjoint ==
    /\ NoRepeats(fusions)
    /\ NoRepeats(chains)
    /\ FlatIds(fusions) \cap FlatIds(chains) = {}

\* C7 witness: the effect has run, a fusion exists, and one of its members is
\* within chain reach of a marker of its own tag that is in no fusion.
C7_Witness ==
    /\ lastEvent.name = "detect"
    /\ fusions # <<>>
    /\ \E a \in FlatIds(fusions), b \in PlacedIds \ (FlatIds(fusions) \cup brokenChainLinks) :
            ConnectEdge(a, b)

\* C8: the fusions are exactly the connected components with at least 2
\* members of the overlap graph over all placed markers, each listed once.
C8_FusionsAreComponents ==
    (lastEvent.name = "detect" /\ ImgAvailable) =>
        /\ ComponentSets(fusions)
                = ComponentsGE2(PlacedIds, {e \in PlacedIds \X PlacedIds : OverlapEdge(e[1], e[2])})
        /\ NoRepeats(fusions)

\* C8 witness: A-B and B-C overlap, A-C do not, and the three are one fusion.
C8_Witness ==
    /\ lastEvent.name = "detect"
    /\ \E a, b, c \in PlacedIds :
            /\ OverlapEdge(a, b) /\ OverlapEdge(b, c) /\ ~OverlapEdge(a, c) /\ a # c
            /\ \E i \in 1..Len(fusions) : {a, b, c} \subseteq Range(fusions[i])

ChainPool == (PlacedIds \ FlatIds(fusions)) \ brokenChainLinks

\* C9: the chains are exactly the connected components with at least 2
\* members of the connects graph over the markers that are in no fusion and
\* not in the broken-link set; an excluded marker is no vertex, so no bridge.
C9_ChainsAreComponents ==
    (lastEvent.name = "detect" /\ ImgAvailable) =>
        /\ ComponentSets(chains)
                = ComponentsGE2(ChainPool, {e \in ChainPool \X ChainPool : ConnectEdge(e[1], e[2])})
        /\ NoRepeats(chains)

\* C9 witness: a broken link lies within reach of two pool markers of its tag
\* that are out of each other's reach, and those two are in no common chain.
C9_Witness ==
    /\ lastEvent.name = "detect"
    /\ \E m \in brokenChainLinks, a, b \in ChainPool :
            /\ ConnectEdge(a, m) /\ ConnectEdge(m, b) /\ ~ConnectEdge(a, b) /\ a # b
            /\ \A i \in 1..Len(chains) : ~({a, b} \subseteq Range(chains[i]))

(***************************************************************************)
(* The history, as the specification states it.                            *)
(***************************************************************************)
\* A step that commits an artifact: a crop that produced a file, or the
\* completion of an external call.
CommitStep ==
    \/ lastEvent'.name = "callSucceeds"
    \/ lastEvent'.name = "applyCrop" /\ history' # history

\* The artifacts a redo can reach: the entries after the cursor.
RedoTargets == {history[k] : k \in (historyIndex + 2)..Len(history)}

\* The steps that act on the markers or the tool only.
MarkerOrToolEvents ==
    {"toolSelect", "cropComplete", "stickerSelect", "imageClick", "stickerMouseDown",
     "delete", "keyDelete", "breakChainLink", "resizeMouseDown", "rotateMouseDown",
     "mouseMove", "mouseUp", "impactChange"}

\* C1: in every reachable state the history cursor is within [-1, length-1],
\* and it is -1 only when no document is loaded (the history is empty).
C1_CursorInRange ==
    /\ historyIndex \in -1..(Len(history) - 1)
    /\ (historyIndex = -1 => history = <<>>)

\* C1 witness: an external call has completed on a history that lost an
\* entry before, and the cursor is on the last of its entries.
C1_Witness ==
    /\ lastEvent.name = "callSucceeds"
    /\ Len(history) >= 2
    /\ historyIndex = Len(history) - 1
    /\ history[1] + 1 < history[Len(history)]

\* C2: a commit performed when the history is (artifacts, cursor) yields
\* exactly artifacts[0..cursor] followed by the new artifact, with the cursor
\* on the last entry.
C2_CommitTruncatesAtCursor ==
    [][CommitStep =>
            /\ history' = Append(SubSeq(history, 1, historyIndex + 1), nextFile')
            /\ historyIndex' = Len(history') - 1]_vars

\* C3: a commit leaves canRedo false and every former redo target in neither
\* the history nor the closure of an outstanding call; an artifact that is in
\* neither never enters either, so no undo/redo makes it current again; and
\* a redo without a redo target changes nothing.
C3_RedoTargetGone ==
    [][/\ CommitStep =>
            /\ ~(historyIndex' < Len(history') - 1)
            /\ RedoTargets \cap (Range(history') \cup Range(pending'.history)) = {}
       /\ \A f \in 1..nextFile :
            f \notin (Range(history) \cup Range(pending.history))
                => f \notin (Range(history') \cup Range(pending'.history))
       /\ (lastEvent'.name = "redo" /\ ~(historyIndex < Len(history) - 1)) =>
            UNCHANGED <<history, historyIndex, placedStickers, brokenChainLinks,
                        fusions, chains>>]_vars

\* C3 witness: a crop was committed after an undo, so the entry that was the
\* redo target is missing between the first entry and the new one.
C3_Witness ==
    /\ lastEvent.name = "applyCrop"
    /\ Len(history) = 2
    /\ historyIndex = 1
    /\ history[1] + 1 < history[2]

\* C4: a load of X, from any state, leaves the history [X] with cursor 0 (so
\* neither undo nor redo is possible), no markers, no broken links, no tag
\* selected, no active marker and the tool 'stickers'; after any commit an
\* undo is possible.
C4_LoadResets ==
    [][/\ lastEvent'.name = "load" =>
            /\ history' = <<lastEvent'.arg>>
            /\ historyIndex' = 0
            /\ ~(historyIndex' > 0) /\ ~(historyIndex' < Len(history') - 1)
            /\ placedStickers' = <<>>
            /\ brokenChainLinks' = {}
            /\ selectedSticker' = Null
            /\ activeStickerId' = NoId
            /\ activeTool' = "stickers"
       /\ CommitStep => historyIndex' > 0]_vars

\* C4 witness: a second document was loaded while a marker of the first was
\* still the active one.
C4_Witness ==
    /\ lastEvent.name = "load"
    /\ history = <<lastEvent.arg>>
    /\ lastEvent.arg > 1
    /\ nextId > 0
    /\ activeStickerId = NoId
    /\ draggingStickerId # NoId

\* C5: undo takes effect iff cursor > 0 and redo iff cursor < length-1; with
\* the guard false the call leaves cursor, history, markers and broken links
\* unchanged; with it true the cursor moves by exactly one and the markers
\* and the broken links become empty.
C5_UndoRedoGuarded ==
    [][/\ lastEvent'.name = "undo" =>
            IF historyIndex > 0
            THEN /\ historyIndex' = historyIndex - 1
                 /\ placedStickers' = <<>> /\ brokenChainLinks' = {}
            ELSE UNCHANGED <<historyIndex, history, placedStickers, brokenChainLinks>>
       /\ lastEvent'.name = "redo" =>
            IF historyIndex < Len(history) - 1
            THEN /\ historyIndex' = historyIndex + 1
                 /\ placedStickers' = <<>> /\ brokenChainLinks' = {}
            ELSE UNCHANGED <<historyIndex, history, placedStickers, brokenChainLinks>>]_vars

\* C5 witness: an undo at cursor 0 left a placed marker in place.
C5_Witness ==
    /\ lastEvent.name = "undo"
    /\ historyIndex = 0
    /\ placedStickers # <<>>

\* C6: undo and redo leave the artifact sequence identical; a commit leaves
\* every entry at an index <= cursor identical; marker operations, tool
\* switches and failed calls leave the sequence identical; an undo that took
\* effect can be redone to the same cursor and artifact, and a redo undone.
C6_ArtifactsImmutable ==
    [][/\ lastEvent'.name \in {"undo", "redo"} => history' = history
       /\ CommitStep =>
            \A k \in 1..(historyIndex + 1) : k <= Len(history') /\ history'[k] = history[k]
       /\ lastEvent'.name \in MarkerOrToolEvents \cup {"callFails"} => history' = history
       /\ (lastEvent'.name = "undo" /\ historyIndex > 0) =>
            /\ historyIndex' < Len(history') - 1
            /\ historyIndex' + 1 = historyIndex
            /\ history'[(historyIndex' + 1) + 1] = history[historyIndex + 1]
       /\ (lastEvent'.name = "redo" /\ historyIndex < Len(history) - 1) =>
            /\ historyIndex' > 0
            /\ historyIndex' - 1 = historyIndex
            /\ history'[(historyIndex' - 1) + 1] = history[historyIndex + 1]]_vars

(***************************************************************************)
(* The broken links.                                                       *)
(***************************************************************************)
\* A step after which the broken-link set may be smaller: a load, an undo or
\* redo that took effect, or a commit.
BrokenLinksResetStep ==
    \/ lastEvent'.name = "load"
    \/ lastEvent'.name \in {"undo", "redo"} /\ historyIndex' # historyIndex
    \/ CommitStep

\* C10: a break of marker id puts id in the broken-link set; a broken link
\* is in no chain after any step, whatever the step did to the markers; and
\* a link stays broken over every step that is no load, undo, redo or commit.
C10_BrokenLinkStaysOut ==
    [][/\ lastEvent'.name = "breakChainLink" => lastEvent'.arg \in brokenChainLinks'
       /\ \A id \in brokenChainLinks \cup brokenChainLinks' : id \notin FlatIds(chains')
       /\ brokenChainLinks \subseteq brokenChainLinks' \/ BrokenLinksResetStep]_vars

\* C10 witness: a third marker was added after a break; the broken link is
\* still placed and within reach of a marker of its tag that is in a chain.
C10_Witness ==
    /\ lastEvent.name = "imageClick"
    /\ Len(placedStickers) = 3
    /\ chains # <<>>
    /\ \E id \in brokenChainLinks \cap PlacedIds :
            /\ id \notin FlatIds(chains)
            /\ \E b \in FlatIds(chains) : ConnectEdge(id, b)

\* C11: the broken-link set is empty after every step that changes the
\* history cursor (undo, redo, commit, load, upload-new), and it is the same
\* after every marker operation other than a break and after a tool switch.
C11_BrokenLinksClearedOrKept ==
    [][/\ historyIndex' # historyIndex => brokenChainLinks' = {}
       /\ (lastEvent'.name \in {"load", "uploadNew"} \/ CommitStep) => brokenChainLinks' = {}
       /\ lastEvent'.name \in MarkerOrToolEvents \ {"breakChainLink"} =>
            brokenChainLinks' = brokenChainLinks]_vars

\* C11 witness: the impact of a marker was set while a link was broken, and
\* the link is still broken.
C11_Witness ==
    /\ lastEvent.name = "impactChange"
    /\ brokenChainLinks # {}
    /\ \E i \in 1..Len(placedStickers) : placedStickers[i].impact = "total"

\* The gesture states that are active (non-null).
ActiveGestures ==
    {g \in {"drag", "resize", "rotate"} :
        \/ g = "drag" /\ draggingStickerId # NoId
        \/ g = "resize" /\ resizingState.active
        \/ g = "rotate" /\ rotatingState.active}

\* C12: in every reachable state at most one of the three gesture states
\* (dragging, resizing, rotating) is active, for any order of begin-gesture
\* events, also a begin that no mouse-up precedes.
C12_OneGestureAtMost == Cardinality(ActiveGestures) <= 1

\* clamp(round(initialSize + deltaX), 16, 200), deltaX in half pixels, as the
\* specification states it: the integer nearest to the sum, a half going up.
ResizedSize(initialSize, deltaX) ==
    LET t == 2 * initialSize + deltaX
        r == CHOOSE n \in -2000..2000 : 2 * n - 1 <= t /\ t < 2 * n + 1
    IN IF r < 16 THEN 16 ELSE IF r > 200 THEN 200 ELSE r

\* A step that updates a resize: a mouse move while a resize, and no rotation,
\* is active on a placed marker.
ResizeUpdateStep ==
    /\ lastEvent'.name = "mouseMove"
    /\ resizingState.active /\ ~rotatingState.active
    /\ activeStickerId \in PlacedIds

\* C13: every placed marker's size is within [16, 200]; a marker is created
\* with size 48; the begin of a resize captures the marker's size; and a
\* resize update sets the size to clamp(round(initialSize + deltaX), 16, 200).
C13_SizeClamped ==
    [][/\ \A i \in 1..Len(placedStickers') : placedStickers'[i].size \in 16..200
       /\ (lastEvent'.name = "imageClick" /\ Len(placedStickers') > Len(placedStickers)) =>
            placedStickers'[Len(placedStickers')].size = 48
       /\ lastEvent'.name = "resizeMouseDown" =>
            resizingState'.initialSize = StickerOf(activeStickerId).size
       /\ ResizeUpdateStep =>
            \A i \in 1..Len(placedStickers') :
                placedStickers'[i].size =
                    IF placedStickers[i].id = activeStickerId
                    THEN ResizedSize(resizingState.initialSize,
                                     lastEvent'.arg - resizingState.startX)
                    ELSE placedStickers[i].size]_vars

\* C13 witness: a resize begun on a marker of size 48 was moved by more than
\* 152 px and the marker's size is 200.
C13_Witness ==
    /\ lastEvent.name = "mouseMove"
    /\ resizingState.active /\ resizingState.initialSize = 48
    /\ lastEvent.arg - resizingState.startX = 1000
    /\ activeStickerId \in PlacedIds
    /\ StickerOf(activeStickerId).size = 200

\* A step that delivers the outcome of the external call, not a user event.
CompletionStep == lastEvent'.name \in {"callSucceeds", "callFails"}

\* C14: while the external call is outstanding (isLoading), no user event
\* changes the history, the cursor, the marker set, the broken-link set or
\* the active selection, and none starts a gesture or a commit.
C14_BusyDisablesAll ==
    [][(isLoading /\ ~CompletionStep) =>
            UNCHANGED <<history, historyIndex, placedStickers, brokenChainLinks,
                        activeStickerId, draggingStickerId, resizingState,
                        rotatingState>>]_vars

\* A step that starts an external call.
CallStartStep == lastEvent'.name \in {"applyStickers", "applyPrompt"}

\* C15: at most one external call is outstanding at any time: a call starts
\* only when none is outstanding, whatever user events came before, and a
\* call is outstanding only while the busy flag is set.
C15_OneCallAtATime ==
    [][/\ CallStartStep => (pending.kind = "none" /\ ~isLoading)
       /\ pending'.kind # "none" => isLoading']_vars

\* C15 witness: with a call outstanding the document was abandoned and another
\* image loaded; the editor is shown again and the call is still outstanding.
C15_Witness ==
    /\ lastEvent.name = "load"
    /\ pending.kind # "none"
    /\ isLoading
    /\ EditorShown
    /\ history # pending.history

\* C16: the failure of an external call leaves the history, the cursor, the
\* markers, the broken links, the selection and the active tool as they were
\* just before it was delivered, clears the busy flag, sets a message that
\* begins with the attempted operation, and starts no other call.
C16_FailureLeavesState ==
    [][lastEvent'.name = "callFails" =>
            /\ UNCHANGED <<history, historyIndex, placedStickers, brokenChainLinks,
                           selectedSticker, activeStickerId, activeTool>>
            /\ ~isLoading'
            /\ pending'.kind = "none"
            /\ error' # NoError
            /\ pending.kind = "stickers" => error' = "Failed to apply the stickers. "
            /\ pending.kind = "filters" => error' = "Failed to apply the filter. "
            /\ pending.kind = "adjust" => error' = "Failed to apply the adjustment. "]_vars

\* C16 witness: an apply-stickers call has failed and the markers it was
\* started with are still placed.
C16_Witness ==
    /\ lastEvent.name = "callFails"
    /\ error = "Failed to apply the stickers. "
    /\ placedStickers # <<>>
    /\ ~isLoading

\* C17: when the outstanding call succeeds, its result is appended directly
\* after the cursor of the history as it is at that moment: no artifact that
\* is not in the history then is in it afterwards, except the new one.
C17_CommitAgainstCurrentHistory ==
    [][lastEvent'.name = "callSucceeds" =>
            /\ Range(history') \subseteq Range(history) \cup {lastEvent'.arg}
            /\ historyIndex' = historyIndex + 1
            /\ history'[historyIndex' + 1] = lastEvent'.arg
            /\ \A k \in 1..(historyIndex + 1) : history'[k] = history[k]]_vars

(***************************************************************************)
(* The editor with a container whose rendered size changes: the <img> is   *)
(* w-full h-auto, so getBoundingClientRect (App.tsx:219) follows the       *)
(* window; no handler of App.tsx listens for it.                           *)
(***************************************************************************)
MaxLayoutIds == 3
LayoutRects == {[width |-> 1000, height |-> 1000], [width |-> 100, height |-> 100]}
LayoutClickPositions == {<<0, 0>>}
LayoutPoints == {<<1200, 1200>>}

\* The browser lays the image out again with another size: no state of the
\* component changes and no effect runs (the effect of App.tsx:212-334
\* depends on [placedStickers, brokenChainLinks] only).
ContainerResize(r) ==
    /\ ImgAvailable
    /\ r # rect
    /\ rect' = r
    /\ lastEvent' = Event("containerResize", r.width)
    /\ UNCHANGED <<history, historyIndex, isLoading, error, activeTool, completedCrop,
                   selectedSticker, placedStickers, draggingStickerId, activeStickerId,
                   resizingState, rotatingState, fusions, chains, brokenChainLinks,
                   pending, nextId, nextFile>>
    /\ RenderEffects

NextLayout ==
    \/ \E pos \in LayoutClickPositions : HandleImageClick(pos, MaxLayoutIds)
    \/ \E id \in 1..MaxLayoutIds : HandleStickerMouseDown(id)
    \/ \E p \in LayoutPoints : HandleImageContainerMouseMove(p[1], p[2], 0)
    \/ HandleImageContainerMouseUp
    \/ HandleDeleteClick
    \/ HandleKeyDown
    \/ HandleApplyStickers
    \/ CallSucceeds
    \/ CallFails
    \/ DismissError
    \/ \E r \in LayoutRects : ContainerResize(r)

SpecLayout == InitEdits /\ [][NextLayout]_vars

\* C18: whenever the image container is on screen, the stored fusions and
\* chains are what the detection gives for the current stickers, the current
\* broken links and the container's current size.
C18_RelationsAreCurrent ==
    ImgAvailable =>
        LET d == Detect(placedStickers, brokenChainLinks, rect, TRUE)
        IN fusions = d.fusions /\ chains = d.chains

\* C20: apply-crop commits only for a region with positive width and positive
\* height; with no region or a region of zero width or zero height it leaves
\* the history and the cursor as they are and sets an error message.
C20_CropFailsCleanly ==
    [][lastEvent'.name = "applyCrop" =>
            IF completedCrop.set /\ completedCrop.width > 0 /\ completedCrop.height > 0
            THEN /\ historyIndex' = historyIndex + 1
                 /\ Len(history') = historyIndex' + 1
            ELSE /\ UNCHANGED <<history, historyIndex>>
                 /\ error' # NoError]_vars

(***************************************************************************)
(* The commit handlers run whatever invokes them: their own tests of the   *)
(* current image and of the stickers (App.tsx:97-104, 386-389, 408-411)    *)
(* decide, not the disabled state of the button that normally invokes them.*)
(***************************************************************************)
\* if (...) { setError(message); return; }
RejectLocally(message) ==
    /\ error' = message
    /\ UNCHANGED <<history, historyIndex, isLoading, activeTool, completedCrop,
                   selectedSticker, placedStickers, draggingStickerId, activeStickerId,
                   resizingState, rotatingState, fusions, chains, brokenChainLinks,
                   rect, pending, nextId, nextFile>>

\* setIsLoading(true); setError(null); and the awaited call of the given kind
StartCall(kind) ==
    /\ pending.kind = "none"
    /\ isLoading' = TRUE
    /\ error' = NoError
    /\ pending' = CallOf(kind)
    /\ UNCHANGED <<history, historyIndex, activeTool, completedCrop, selectedSticker,
                   placedStickers, draggingStickerId, activeStickerId, resizingState,
                   rotatingState, fusions, chains, brokenChainLinks, rect, nextId, nextFile>>

\* A plausible slip: the busy flag is set before the handler tests its input.
InvokeApplyStickers_BusyFirst ==
    /\ lastEvent' = Event("invokeApplyStickers", 0)
    /\ IF ~HasCurrentImage \/ Len(placedStickers) = 0
       THEN /\ error' = "No stickers have been placed on the image."
            /\ isLoading' = TRUE
            /\ UNCHANGED <<history, historyIndex, activeTool, completedCrop,
                           selectedSticker, placedStickers, draggingStickerId,
                           activeStickerId, resizingState, rotatingState, fusions, chains,
                           brokenChainLinks, rect, pending, nextId, nextFile>>
       ELSE StartCall("stickers")
    /\ RenderEffects

\* handleApplyStickers (App.tsx:96-154) up to its await
InvokeApplyStickers ==
    /\ lastEvent' = Event("invokeApplyStickers", 0)
    /\ IF ~HasCurrentImage
       THEN RejectLocally("No image loaded to apply stickers to.")
       ELSE IF Len(placedStickers) = 0
            THEN RejectLocally("No stickers have been placed on the image.")
            ELSE StartCall("stickers")
    /\ RenderEffects

\* handleApplyFilter (App.tsx:385-405) and handleApplyAdjustment (407-427) up
\* to their await
InvokeApplyPrompt(kind) ==
    /\ lastEvent' = Event("invokeApplyPrompt", 0)
    /\ IF ~HasCurrentImage
       THEN RejectLocally(IF kind = "filters"
                          THEN "No image loaded to apply a filter to."
                          ELSE "No image loaded to apply an adjustment to.")
       ELSE StartCall(kind)
    /\ RenderEffects

MaxHandlerIds == 2
HandlerClickPositions == {<<5, 5>>}
HandlerPromptKinds == {"filters", "adjust"}

NextHandlers ==
    \/ HandleImageUpload
    \/ HandleUploadNew
    \/ \E emoji \in PanelEmojis : HandleStickerClick(emoji)
    \/ \E pos \in HandlerClickPositions : HandleImageClick(pos, MaxHandlerIds)
    \/ \E id \in 1..MaxHandlerIds : HandleStickerMouseDown(id)
    \/ HandleKeyDown
    \/ InvokeApplyStickers
    \/ \E kind \in HandlerPromptKinds : InvokeApplyPrompt(kind)
    \/ CallSucceeds
    \/ CallFails
    \/ DismissError

SpecHandlers == Init /\ [][NextHandlers]_vars

\* C19: a commit handler run without a current image, or the stickers handler
\* run with no sticker placed, starts no call, leaves the busy flag, the
\* history and the cursor as they are, and sets an error message.
C19_RejectedLocally ==
    [][(\/ /\ lastEvent'.name \in {"invokeApplyStickers", "invokeApplyPrompt"}
           /\ ~(historyIndex >= 0 /\ historyIndex < Len(history))
        \/ /\ lastEvent'.name = "invokeApplyStickers"
           /\ Len(placedStickers) = 0)
       => /\ UNCHANGED <<history, historyIndex, isLoading, pending>>
          /\ error' # NoError]_vars

\* The stickers handler has just rejected a document that has no sticker.
C19_Witness ==
    /\ lastEvent.name = "invokeApplyStickers"
    /\ historyIndex >= 0
    /\ placedStickers = <<>>
    /\ error = "No stickers have been placed on the image."
    /\ ~isLoading
    /\ pending.kind = "none"

\* C21: whenever a click on the main action button can be handled, the bound
\* action is none or the active tool's; under the stickers tool it is the
\* stickers action, enabled iff a sticker is placed; under the crop tool it is
\* the crop action, enabled iff a completed crop region has positive width.
C21_BindingFollowsTool ==
    (error = NoError /\ historyIndex >= 0 /\ historyIndex < Len(history) /\ ~isLoading) =>
        /\ generateAction.tool \in {"none", activeTool}
        /\ activeTool = "stickers" =>
                /\ generateAction.tool = "stickers"
                /\ generateAction.isEnabled <=> Len(placedStickers) > 0
        /\ activeTool = "crop" =>
                /\ generateAction.tool = "crop"
                /\ generateAction.isEnabled <=> (completedCrop.set /\ completedCrop.width > 0)

\* The crop tool was just chosen with stickers placed: the enabled stickers
\* action of the render before is replaced by the crop action, disabled.
C21_Witness ==
    /\ lastEvent.name = "toolSelect"
    /\ activeTool = "crop"
    /\ ~isLoading
    /\ Len(placedStickers) > 0
    /\ generateAction.tool = "crop"
    /\ ~generateAction.isEnabled

(***************************************************************************)
(* The binding of the main action button under the four tools, with the    *)
(* panels' prompts.  React runs the effects of a render it has committed:  *)
(* the panel's effect is weakly fair.                                      *)
(***************************************************************************)
MaxBindingIds == 1
BindingClickPositions == {<<5, 5>>}
BindingCategories == {"Presets", "Custom"}
BindingPresets == {"preset", "preset2"}
BindingCustomValues == {"custom", " ", ""}
BindingCropRegions == {<<10, 10>>}

NextBinding ==
    \/ \E tool \in Tools : HandleToolSelect(tool)
    \/ \E category \in BindingCategories : HandleCategoryClick(category)
    \/ \E prompt \in BindingPresets : HandlePresetClick(prompt)
    \/ \E value \in BindingCustomValues : HandleCustomChange(value)
    \/ PanelEffect
    \/ AppRender
    \/ HandleApplyPrompt
    \/ CallSucceeds
    \/ CallFails
    \/ DismissError
    \/ \E pos \in BindingClickPositions : HandleImageClick(pos, MaxBindingIds)
    \/ \E c \in BindingCropRegions : HandleCropComplete(c)

SpecBinding ==
    InitEdits /\ [][NextBinding]_vars /\ WF_vars(PanelEffect) /\ WF_vars(AppRender)

\* The prompt the mounted panel shows, before trimming.
ShownPrompt ==
    IF panel.selectedPresetPrompt \notin {Null, ""}
    THEN panel.selectedPresetPrompt
    ELSE panel.customPrompt

\* The binding is the mounted panel's: the action of the active tool, with
\* the shown prompt trimmed, enabled iff that is not empty.
BindingIsPanels ==
    /\ generateAction.tool = activeTool
    /\ generateAction.isEnabled <=> ShownPrompt \notin {"", " "}
    /\ generateAction.isEnabled => generateAction.prompt = ShownPrompt

\* C22: while the panel of the filters or adjust tool is on screen, a binding
\* that is not the panel's (the reset of the tool switch) is followed by the
\* panel's binding, enabled iff the prompt is not empty after trimming.
C22_PanelBindingEstablished ==
    (error = NoError /\ historyIndex >= 0 /\ activeTool \in {"filters", "adjust"}
        /\ ~BindingIsPanels)
    ~> (error # NoError \/ historyIndex < 0 \/ activeTool \notin {"filters", "adjust"}
        \/ BindingIsPanels)

\* After the switch to the filters tool the panel's effect has run again: the
\* button is enabled with the preset the panel starts with.
C22_Witness ==
    /\ lastEvent.name = "panelEffect"
    /\ activeTool = "filters"
    /\ error = NoError
    /\ BindingIsPanels
    /\ generateAction.isEnabled
    /\ generateAction.prompt = "preset"

\* C23: a click on the image with an emoji selected appends exactly one
\* sticker (size 48, rotation 0, impact artistic, the selected emoji, an id no
\* placed sticker has) after the placed ones, which stay as they are; with
\* null or '' selected the placed stickers are unchanged.
C23_PlaceAppendsOne ==
    [][lastEvent'.name = "imageClick" =>
            IF selectedSticker \notin {"null", ""}
            THEN /\ Len(placedStickers') = Len(placedStickers) + 1
                 /\ SubSeq(placedStickers', 1, Len(placedStickers)) = placedStickers
                 /\ LET new == placedStickers'[Len(placedStickers')]
                    IN /\ new.size = 48
                       /\ new.rotation = 0
                       /\ new.impact = "artistic"
                       /\ new.emoji = selectedSticker
                       /\ \A i \in 1..Len(placedStickers) : placedStickers[i].id # new.id
            ELSE placedStickers' = placedStickers]_vars

\* A second sticker was just placed after the first.
C23_Witness ==
    /\ lastEvent.name = "imageClick"
    /\ Len(placedStickers) = 2
    /\ placedStickers[1].id # placedStickers[2].id
    /\ placedStickers[2].size = 48

\* C24: deleting the sticker with an id (by its delete handle or by the
\* keyboard) removes that sticker and no other, keeps the order of the others
\* and the broken links, clears the active selection if it was that id, and
\* after the detection that follows the id is in no fusion and in no chain.
C24_DeleteRemovesOne ==
    [][lastEvent'.name \in {"delete", "keyDelete"} =>
            LET id == lastEvent'.arg
            IN /\ placedStickers' =
                      SelectSeq(placedStickers, LAMBDA st : st.id # id)
               /\ brokenChainLinks' = brokenChainLinks
               /\ activeStickerId = id => activeStickerId' = 0
               /\ \A k \in 1..Len(fusions') :
                      \A m \in 1..Len(fusions'[k]) : fusions'[k][m] # id
               /\ \A k \in 1..Len(chains') :
                      \A m \in 1..Len(chains'[k]) : chains'[k][m] # id]_vars

\* One sticker of a chain of three was just deleted: the two that remain are
\* a chain.
C24_Witness ==
    /\ lastEvent.name \in {"delete", "keyDelete"}
    /\ Len(placedStickers) = 2
    /\ Len(chains) = 1
    /\ activeStickerId = 0
    /\ \A i \in 1..2 : placedStickers[i].id # lastEvent.arg

C26_SameTagNeverFuses ==
    (lastEvent.name = "detect" /\ error = NoError) =>
        \A i, j \in 1..Len(placedStickers) :
            LET a == placedStickers[i]
                b == placedStickers[j]
            IN /\ DoStickersOverlap(a, b, rect) <=> DoStickersOverlap(b, a, rect)
               /\ ~DoStickersOverlap(a, a, rect)
               /\ a.emoji = b.emoji => ~DoStickersOverlap(a, b, rect)
               /\ (/\ i # j /\ a.emoji = b.emoji /\ a.x = b.x /\ a.y = b.y
                   /\ {a.id, b.id} \cap (FlatIds(fusions) \cup brokenChainLinks) = {})
                  => \E k \in 1..Len(chains) : {a.id, b.id} \subseteq Range(chains[k])

\* Two stickers of one emoji at one position: no fusion, one chain of the two.
C26_Witness ==
    /\ lastEvent.name = "detect"
    /\ Len(placedStickers) = 2
    /\ placedStickers[1].emoji = placedStickers[2].emoji
    /\ placedStickers[1].x = placedStickers[2].x
    /\ placedStickers[1].y = placedStickers[2].y
    /\ fusions = <<>>
    /\ Len(chains) = 1

\* C27: when the detection runs (the stickers or the broken links were set)
\* with fewer than 2 stickers, or with no image element on screen, it stores
\* empty fusions and empty chains, whatever was stored before.
C27_EmptyWithoutInputs ==
    [][(/\ placedStickers' # placedStickers \/ brokenChainLinks' # brokenChainLinks
        /\ \/ Len(placedStickers') < 2
           \/ error' # NoError
           \/ historyIndex' < 0)
       => fusions' = <<>> /\ chains' = <<>>]_vars

\* Under the error card a sticker of a chain of three was deleted by the
\* keyboard: the two that remain are at one position and no chain is stored.
C27_Witness ==
    /\ lastEvent.name = "keyDelete"
    /\ error # NoError
    /\ Len(placedStickers) = 2
    /\ placedStickers[1].x = placedStickers[2].x
    /\ placedStickers[1].y = placedStickers[2].y
    /\ fusions = <<>>
    /\ chains = <<>>

(***************************************************************************)
(* SpecOrder: the detection effect on up to five stickers of two emojis at *)
(* three positions that are out of each other's reach (500 px and more on  *)
(* the 1000 px container, stickers of 48 px), for the order of the lists.  *)
(***************************************************************************)
MaxOrderStickers == 5
OrderPositions == {<<0, 0>>, <<50, 0>>, <<0, 50>>}
OrderProtos == [emoji : Emojis, pos : OrderPositions]

OrderStickers(f) ==
    [i \in DOMAIN f |->
        [id |-> i, emoji |-> f[i].emoji, x |-> f[i].pos[1], y |-> f[i].pos[2],
         size |-> DefaultSize, rotation |-> 0, impact |-> "artistic"]]

OrderInputs ==
    UNION {{OrderStickers(f) : f \in [1..n -> OrderProtos]} : n \in 0..MaxOrderStickers}

InitOrder ==
    /\ history = <<1>>
    /\ historyIndex = 0
    /\ isLoading = FALSE
    /\ error = NoError
    /\ activeTool = "stickers"
    /\ completedCrop = NoCrop
    /\ selectedSticker = Null
    /\ placedStickers \in OrderInputs
    /\ draggingStickerId = NoId
    /\ activeStickerId = NoId
    /\ resizingState = NoResize
    /\ rotatingState = NoRotate
    /\ fusions = <<>>
    /\ chains = <<>>
    /\ brokenChainLinks \in SUBSET (StickerIds(placedStickers) \cap {1})
    /\ rect = [width |-> 1000, height |-> 1000]
    /\ pending = NoCall
    /\ nextId = Len(placedStickers)
    /\ nextFile = 1
    /\ generateAction = StickersBinding(placedStickers)
    /\ panel = NoPanel
    /\ panelEffectDue = FALSE
    /\ appRenderDue = FALSE
    /\ lastEvent = Event("init", 0)

SpecOrder == InitOrder /\ [][NextBuilder]_vars

\* The insertion index of a placed sticker's id, and of the earliest member
\* of a component.
IndexOfId(id) == CHOOSE i \in 1..Len(placedStickers) : placedStickers[i].id = id
EarliestIndex(component) ==
    CHOOSE i \in {IndexOfId(id) : id \in Range(component)} :
        \A j \in {IndexOfId(id) : id \in Range(component)} : i <= j

OrderedByEarliest(components) ==
    \A k, l \in 1..Len(components) :
        k < l => EarliestIndex(components[k]) < EarliestIndex(components[l])

FirstIsEarliest(components) ==
    \A k \in 1..Len(components) :
        IndexOfId(components[k][1]) = EarliestIndex(components[k])

\* The emoji of a chain, and the insertion index of the first sticker of that
\* emoji among the stickers that are in no fusion and not broken.
ChainEmoji(component) == placedStickers[IndexOfId(component[1])].emoji
FirstCandidateIndex(emoji) ==
    LET pool == {i \in 1..Len(placedStickers) :
                    /\ placedStickers[i].emoji = emoji
                    /\ placedStickers[i].id \notin FlatIds(fusions) \cup brokenChainLinks}
    IN CHOOSE i \in pool : \A j \in pool : i <= j

\* C28 as stated: in the fusions and in the chains alike the components are
\* in the order of their earliest-inserted members, and each component begins
\* with its earliest-inserted member.
C28_OrderedByEarliestMember ==
    (lastEvent.name = "detect" /\ error = NoError) =>
        /\ OrderedByEarliest(fusions) /\ FirstIsEarliest(fusions)
        /\ OrderedByEarliest(chains) /\ FirstIsEarliest(chains)

\* C28 amended: the fusions are in the order of their earliest-inserted
\* members; the chains are grouped by emoji, the emojis in the order of their
\* first sticker among the chain candidates, and the chains of one emoji in
\* the order of their earliest-inserted members; every component begins with
\* its earliest-inserted member.
C28_OrderedWithinEmojiGroups ==
    (lastEvent.name = "detect" /\ error = NoError) =>
        /\ OrderedByEarliest(fusions) /\ FirstIsEarliest(fusions)
        /\ FirstIsEarliest(chains)
        /\ \A k, l \in 1..Len(chains) :
              k < l =>
                IF ChainEmoji(chains[k]) = ChainEmoji(chains[l])
                THEN EarliestIndex(chains[k]) < EarliestIndex(chains[l])
                ELSE FirstCandidateIndex(ChainEmoji(chains[k]))
                        < FirstCandidateIndex(ChainEmoji(chains[l]))

\* A chain is listed before a chain of another emoji whose earliest member
\* was inserted earlier: its emoji has an earlier sticker that is in no chain.
C28_Witness ==
    /\ lastEvent.name = "detect"
    /\ Len(chains) = 2
    /\ EarliestIndex(chains[1]) > EarliestIndex(chains[2])
    /\ ChainEmoji(chains[1]) # ChainEmoji(chains[2])

\* C29 as stated: no two members of one fusion carry the same emoji, and all
\* members of one chain carry the same emoji.
C29_FusionTagsDistinct ==
    (lastEvent.name = "detect" /\ error = NoError) =>
        /\ \A k \in 1..Len(fusions) :
              \A m, n \in 1..Len(fusions[k]) :
                  m # n => StickerOf(fusions[k][m]).emoji # StickerOf(fusions[k][n]).emoji
        /\ \A k \in 1..Len(chains) :
              \A m, n \in 1..Len(chains[k]) :
                  StickerOf(chains[k][m]).emoji = StickerOf(chains[k][n]).emoji

\* C29 amended: every member of a fusion overlaps a member of the same fusion
\* that carries another emoji (two members of one emoji can be joined through
\* such members), and all members of one chain carry the same emoji.
C29_FusionEdgesCrossTags ==
    (lastEvent.name = "detect" /\ error = NoError) =>
        /\ \A k \in 1..Len(fusions) :
              \A m \in 1..Len(fusions[k]) :
                  \E n \in 1..Len(fusions[k]) :
                      /\ StickerOf(fusions[k][m]).emoji # StickerOf(fusions[k][n]).emoji
                      /\ OverlapEdge(fusions[k][m], fusions[k][n])
        /\ \A k \in 1..Len(chains) :
              \A m, n \in 1..Len(chains[k]) :
                  StickerOf(chains[k][m]).emoji = StickerOf(chains[k][n]).emoji

\* One fusion of three stickers, two of them of one emoji.
C29_Witness ==
    /\ lastEvent.name = "detect"
    /\ Len(fusions) = 1
    /\ Len(fusions[1]) = 3
    /\ \E m, n \in 1..3 :
            m # n /\ StickerOf(fusions[1][m]).emoji = StickerOf(fusions[1][n]).emoji

(***************************************************************************)
(* SpecImpact: placing, dragging and re-rating stickers in a container     *)
(* whose rendered size changes.                                            *)
(***************************************************************************)
MaxImpactIds == 2
ImpactClickPositions == {<<0, 0>>}
ImpactPoints == {<<1200, 1200>>}
ImpactLevels == {"subtle", "total"}

NextImpact ==
    \/ \E pos \in ImpactClickPositions : HandleImageClick(pos, MaxImpactIds)
    \/ \E id \in 1..MaxImpactIds : HandleStickerMouseDown(id)
    \/ \E p \in ImpactPoints : HandleImageContainerMouseMove(p[1], p[2], 0)
    \/ HandleImageContainerMouseUp
    \/ \E level \in ImpactLevels : HandleImpactChange(level)
    \/ \E r \in LayoutRects : ContainerResize(r)

SpecImpact == InitEdits /\ [][NextImpact]_vars

\* C30: an impact button changes the impact of the sticker it belongs to and
\* nothing else: every sticker's id, emoji, position, size and rotation, the
\* order of the stickers, the broken links, the history and the members of
\* every fusion and chain are as before.
C30_ImpactChangesImpactOnly ==
    [][lastEvent'.name = "impactChange" =>
            /\ Len(placedStickers') = Len(placedStickers)
            /\ \A i \in 1..Len(placedStickers) :
                  /\ [placedStickers'[i] EXCEPT !.impact = placedStickers[i].impact]
                        = placedStickers[i]
                  /\ placedStickers[i].id # lastEvent'.arg
                        => placedStickers'[i] = placedStickers[i]
            /\ UNCHANGED <<brokenChainLinks, history, historyIndex>>
            /\ {Range(fusions'[k]) : k \in 1..Len(fusions')}
                  = {Range(fusions[k]) : k \in 1..Len(fusions)}
            /\ {Range(chains'[k]) : k \in 1..Len(chains')}
                  = {Range(chains[k]) : k \in 1..Len(chains)}]_vars

(***************************************************************************)
(* SpecDrag: placing and dragging stickers on one document, the pointer    *)
(* inside the image, left of and above it, and right of and below it (a    *)
(* sticker is a child of the container that overflows it, so the container *)
(* receives moves from outside the image's rectangle).                     *)
(***************************************************************************)
\* Sticker ids handed out in one run of SpecDrag.
MaxDragIds == 2

DragClickPositions == {<<0, 0>>, <<100, 100>>}
\* Pointer positions of a mouse move, half px from the image's corner: at
\* (-50, -50), (150, 350) and (1200, 1200) px of a 1000 px image.
DragPoints == {<<-100, -100>>, <<300, 700>>, <<2400, 2400>>}

NextDrag ==
    \/ \E pos \in DragClickPositions : HandleImageClick(pos, MaxDragIds)
    \/ \E id \in 1..MaxDragIds : HandleStickerMouseDown(id)
    \/ \E p \in DragPoints : HandleImageContainerMouseMove(p[1], p[2], 0)
    \/ HandleImageContainerMouseUp
    \/ HandleDeleteClick

SpecDrag == InitEdits /\ [][NextDrag]_vars

\* The pointer's percentage position along an axis of the given extent (px),
\* the pointer at v half px, clamped to [0, 100], as the specification states
\* it; in whole percent, rounded down.
ClampedPercent(v, extent) ==
    LET q == CHOOSE n \in -1000..1000 :
                n * 2 * extent <= v * 100 /\ v * 100 < (n + 1) * 2 * extent
    IN IF q < 0 THEN 0 ELSE IF q > 100 THEN 100 ELSE q

\* A step that updates a drag: a mouse move while a marker is dragged and
\* neither a rotation nor a resize is active on a selection.
DragUpdateStep ==
    /\ lastEvent'.name = "mouseMove"
    /\ draggingStickerId # NoId
    /\ ~(rotatingState.active /\ activeStickerId # NoId)
    /\ ~(resizingState.active /\ activeStickerId # NoId)

\* C31: every marker's position is within [0, 100] on both axes in every
\* reachable state, and a drag update sets the dragged marker's position to
\* the pointer's percentage position clamped to [0, 100] on each axis, also
\* for a pointer outside the image's rectangle.
C31_PositionWithinRange ==
    [][/\ \A i \in 1..Len(placedStickers') :
            placedStickers'[i].x \in 0..100 /\ placedStickers'[i].y \in 0..100
       /\ DragUpdateStep =>
            \E p \in DragPoints :
                /\ lastEvent'.arg = p[1]
                /\ \A i \in 1..Len(placedStickers) :
                    placedStickers[i].id = draggingStickerId =>
                        /\ placedStickers'[i].x = ClampedPercent(p[1], rect.width)
                        /\ placedStickers'[i].y = ClampedPercent(p[2], rect.height)]_vars

\* C31 witness: a marker placed at (100, 100) was dragged with the pointer
\* 50 px left of and above the image and is at (0, 0).
C31_Witness ==
    /\ lastEvent.name = "mouseMove" /\ lastEvent.arg = -100
    /\ draggingStickerId \in PlacedIds
    /\ StickerOf(draggingStickerId).x = 0
    /\ StickerOf(draggingStickerId).y = 0
    /\ nextId = 1

(***************************************************************************)
(* SpecGesture: the three gestures on one document.  A drag moves the      *)
(* marker to (17, 35); a resize begins at x = 100 px and its moves are at  *)
(* deltaX = +76 px; a rotation begins at 0 degrees and its moves are at    *)
(* 45 degrees.  Delete and Backspace remove the selected marker while a    *)
(* gesture on it is under way.                                             *)
(***************************************************************************)
\* Sticker ids handed out in one run of SpecGesture.
MaxGestureIds == 2

GestureClickPositions == {<<0, 0>>}
GesturePoints == {<<352, 700>>}
GestureResizeStartXs == {200}
GestureStartAngles == {0}
GestureAngles == {45}

NextGesture ==
    \/ \E pos \in GestureClickPositions : HandleImageClick(pos, MaxGestureIds)
    \/ \E id \in 1..MaxGestureIds : HandleStickerMouseDown(id)
    \/ \E x \in GestureResizeStartXs : HandleResizeHandleMouseDown(x)
    \/ \E a \in GestureStartAngles : HandleRotationHandleMouseDown(a)
    \/ \E p \in GesturePoints, a \in GestureAngles :
            RotationWithin(a) /\ HandleImageContainerMouseMove(p[1], p[2], a)
    \/ HandleImageContainerMouseUp
    \/ HandleKeyDown

SpecGesture == InitEdits /\ [][NextGesture]_vars

\* The gesture a pointer move updates, by the state it meets.
UpdatedGesture ==
    IF rotatingState.active /\ activeStickerId # NoId THEN "rotate"
    ELSE IF resizingState.active /\ activeStickerId # NoId THEN "resize"
    ELSE IF draggingStickerId # NoId THEN "drag"
    ELSE "none"

\* The marker id the update is aimed at.
UpdateTarget ==
    IF UpdatedGesture = "drag" THEN draggingStickerId
    ELSE IF UpdatedGesture = "none" THEN NoId ELSE activeStickerId

\* C32: a gesture update changes one attribute of one marker only: a drag
\* update the position of the dragged marker, a resize update the size of
\* the active marker, a rotate update the rotation of the active marker;
\* every other attribute of it, every other marker, the order of the
\* markers, the broken links and the history are unchanged, and an update
\* whose target is no placed marker changes nothing.
C32_UpdateChangesOneAttribute ==
    [][lastEvent'.name = "mouseMove" =>
            /\ UNCHANGED <<brokenChainLinks, history, historyIndex>>
            /\ Len(placedStickers') = Len(placedStickers)
            /\ \A i \in 1..Len(placedStickers) :
                  \/ placedStickers'[i] = placedStickers[i]
                  \/ /\ placedStickers[i].id = UpdateTarget
                     /\ \/ /\ UpdatedGesture = "drag"
                           /\ placedStickers'[i] =
                                [placedStickers[i] EXCEPT !.x = placedStickers'[i].x,
                                                          !.y = placedStickers'[i].y]
                        \/ /\ UpdatedGesture = "resize"
                           /\ placedStickers'[i] =
                                [placedStickers[i] EXCEPT !.size = placedStickers'[i].size]
                        \/ /\ UpdatedGesture = "rotate"
                           /\ placedStickers'[i] =
                                [placedStickers[i] EXCEPT !.rotation = placedStickers'[i].rotation]
            /\ UpdateTarget \notin PlacedIds =>
                  UNCHANGED <<placedStickers, activeStickerId, draggingStickerId,
                              resizingState, rotatingState, selectedSticker>>]_vars

\* C32 witness: of two markers the second was resized to 124 and then
\* rotated to 45 degrees by a pointer move; the first is as it was placed.
C32_Witness ==
    /\ lastEvent.name = "mouseMove"
    /\ rotatingState.active /\ activeStickerId = 2
    /\ Len(placedStickers) = 2
    /\ placedStickers[1] = [id |-> 1, emoji |-> "A", x |-> 0, y |-> 0,
                            size |-> 48, rotation |-> 0, impact |-> "artistic"]
    /\ placedStickers[2] = [id |-> 2, emoji |-> "A", x |-> 0, y |-> 0,
                            size |-> 124, rotation |-> 45, impact |-> "artistic"]

(***************************************************************************)
(* SpecCalls: the editor from its first render, with an external service   *)
(* that answers every call: the promise of an outstanding call is settled, *)
(* resolved or rejected, and its continuation runs.                        *)
(***************************************************************************)
SpecCalls == Init /\ [][Next]_vars /\ WF_vars(CallSucceeds \/ CallFails)

\* C33: every external call that is started is eventually followed by the
\* busy flag being false, the service answering every call: the success
\* path and the failure paths clear the flag, and the flag is never set
\* while no call is outstanding.
C33_BusyEventuallyClears ==
    /\ (pending.kind # "none") ~> ~isLoading
    /\ [](isLoading => pending.kind # "none")

\* C33 witness: two calls have been answered with an image, the second being
\* the third artifact of the history, and the editor is not busy.
C33_Witness ==
    /\ lastEvent.name = "callSucceeds"
    /\ ~isLoading
    /\ pending.kind = "none"
    /\ generateAction = StickersBinding(<<>>)
    /\ Len(history) = 3

(***************************************************************************)
(* SpecDescribe: apply-stickers as a function of the stickers it meets.    *)
(* Init draws the sticker list (one sticker of every size; two stickers of *)
(* sizes around the thresholds, apart, overlapping with different emojis   *)
(* or connected with the same emoji; the lists of SpecBuilder) with the    *)
(* fusions and chains the detection effect stored for it; the actions are  *)
(* the main button and the answer of the service.                          *)
(***************************************************************************)
\* Sizes next to the thresholds of getSizeCategory and at the limits.
SizeSamples == {16, 31, 32, 63, 64, 127, 128, 129, 179, 180, 181, 200}

DescribeSticker(id, emoji, pos, size) ==
    [id |-> id, emoji |-> emoji, x |-> pos[1], y |-> pos[2], size |-> size,
     rotation |-> 0, impact |-> "artistic"]

DescribeInputs ==
    {<<DescribeSticker(1, "A", <<0, 0>>, s)>> : s \in MinSize..MaxSize}
    \cup {<<DescribeSticker(1, "A", <<0, 0>>, p[1]), DescribeSticker(2, e, q, p[2])>> :
                p \in SizeSamples \X SizeSamples, e \in Emojis,
                q \in {<<0, 0>>, <<50, 50>>}}
    \cup BuilderInputs

InitDescribe ==
    /\ history = <<1>>
    /\ historyIndex = 0
    /\ isLoading = FALSE
    /\ error = NoError
    /\ activeTool = "stickers"
    /\ completedCrop = NoCrop
    /\ selectedSticker = Null
    /\ placedStickers \in DescribeInputs
    /\ draggingStickerId = NoId
    /\ activeStickerId = NoId
    /\ resizingState = NoResize
    /\ rotatingState = NoRotate
    /\ brokenChainLinks \in SUBSET (StickerIds(placedStickers) \cap {1})
    /\ rect \in BuilderRects
    /\ fusions = Detect(placedStickers, brokenChainLinks, rect, TRUE).fusions
    /\ chains = Detect(placedStickers, brokenChainLinks, rect, TRUE).chains
    /\ pending = NoCall
    /\ nextId = Len(placedStickers)
    /\ nextFile = 1
    /\ generateAction = StickersBinding(placedStickers)
    /\ panel = NoPanel
    /\ panelEffectDue = FALSE
    /\ appRenderDue = FALSE
    /\ lastEvent = Event("init", 0)

NextDescribe ==
    \/ HandleApplyStickers
    \/ CallSucceeds
    \/ CallFails

SpecDescribe == InitDescribe /\ [][NextDescribe]_vars

\* The five bands as the specification states them: band b holds the size
\* total / count.
InBand(b, total, count) ==
    CASE b = 1 -> total < 32 * count
      [] b = 2 -> 32 * count <= total /\ total < 64 * count
      [] b = 3 -> 64 * count <= total /\ total < 128 * count
      [] b = 4 -> 128 * count <= total /\ total < 180 * count
      [] b = 5 -> 180 * count <= total

BandNames == <<"Tiny", "Small", "Medium", "Large", "Huge">>

BandRank(name) == CHOOSE b \in 1..5 : BandNames[b] = name

\* The size a description categorises, as a sum and a count.
DescribedTotal(k) == SumSize(pending.inputs[k].stickers)

DescribedCount(k) == Len(pending.inputs[k].stickers)

\* C34: the size-to-category step maps every size to exactly one of five
\* bands, tiny below 32, small from 32 below 64, medium from 64 below 128,
\* large from 128 below 180, huge from 180; for every marker size in
\* [16, 200] the band is defined, and a larger size never gets a lower band.
C34_SizeBands ==
    \A k \in 1..Len(pending.descriptions) :
        /\ Cardinality({b \in 1..5 : InBand(b, DescribedTotal(k), DescribedCount(k))}) = 1
        /\ pending.descriptions[k].sizeCategory \in Range(BandNames)
        /\ InBand(BandRank(pending.descriptions[k].sizeCategory),
                  DescribedTotal(k), DescribedCount(k))
        /\ \A j \in 1..Len(pending.descriptions) :
              DescribedTotal(k) * DescribedCount(j) <= DescribedTotal(j) * DescribedCount(k)
                  => BandRank(pending.descriptions[k].sizeCategory)
                        <= BandRank(pending.descriptions[j].sizeCategory)

\* C34 witness: a call was started for two single stickers of sizes 179 and
\* 180, described as large and as huge.
C34_Witness ==
    /\ pending.kind = "stickers"
    /\ Len(pending.descriptions) = 2
    /\ pending.inputs[1].type = "single" /\ pending.inputs[1].stickers[1].size = 179
    /\ pending.inputs[2].type = "single" /\ pending.inputs[2].stickers[1].size = 180
    /\ pending.descriptions[1].sizeCategory = "Large"
    /\ pending.descriptions[2].sizeCategory = "Huge"

\* The descriptors that hold the marker id.
DescriptorsOf(inputs, id) ==
    {k \in 1..Len(inputs) : id \in StickerIds(inputs[k].stickers)}

\* C35: the placement descriptors that apply-stickers hands to the external
\* call partition the marker set: every placed marker is in exactly one
\* descriptor, a fusion or chain descriptor holds at least 2 markers, and
\* every marker of a descriptor is a placed marker.
C35_DescriptorsPartition ==
    [][lastEvent'.name = "applyStickers" =>
            /\ \A id \in PlacedIds : Cardinality(DescriptorsOf(pending'.inputs, id)) = 1
            /\ \A k \in 1..Len(pending'.inputs) :
                  LET d == pending'.inputs[k]
                  IN /\ Range(d.stickers) \subseteq Range(placedStickers)
                     /\ Cardinality(StickerIds(d.stickers)) = Len(d.stickers)
                     /\ d.type \in {"fusion", "chain", "single"}
                     /\ d.type \in {"fusion", "chain"} => Len(d.stickers) >= 2
                     /\ d.type = "single" => Len(d.stickers) = 1]_vars

\* C35 witness: a call was started for three markers, two of them in a chain
\* and one single.
C35_Witness ==
    /\ lastEvent.name = "applyStickers"
    /\ Len(placedStickers) = 3
    /\ Len(pending.inputs) = 2
    /\ pending.inputs[1].type = "chain" /\ Len(pending.inputs[1].stickers) = 2
    /\ pending.inputs[2].type = "single"

\* C36: in every reachable state the active selection is null or the id of
\* a placed marker; it does not survive undo, redo, upload-new or any other
\* step that empties the marker set.
C36_SelectionIsPlaced == activeStickerId = NoId \/ activeStickerId \in PlacedIds

\* C37: the history is empty iff the cursor is -1; while no document is
\* loaded (cursor -1) the markers, the broken links, the fusions and the
\* chains are all empty; and a marker is added only while a document is
\* loaded.
C37_NothingWithoutDocument ==
    [][/\ (history' = <<>>) <=> (historyIndex' = -1)
       /\ historyIndex' = -1 =>
            /\ placedStickers' = <<>>
            /\ brokenChainLinks' = {}
            /\ fusions' = <<>>
            /\ chains' = <<>>
       /\ Len(placedStickers') > Len(placedStickers) =>
            (historyIndex >= 0 /\ historyIndex' >= 0)]_vars

\* C37 witness: two markers were placed on a document, and "New" has
\* abandoned it with no call outstanding.
C37_Witness ==
    /\ lastEvent.name = "uploadNew"
    /\ historyIndex = -1
    /\ history = <<>>
    /\ nextId = 2
    /\ chains = <<>>
    /\ pending.kind = "none"

\* C38: a tool switch changes no document state: the markers, the broken
\* links, the active selection, the history and the cursor are as before;
\* only the action binding is derived again and, when the new tool is not
\* the crop tool, the crop region is cleared.
C38_ToolSwitchKeepsDocument ==
    [][lastEvent'.name = "toolSelect" =>
            /\ UNCHANGED <<placedStickers, brokenChainLinks, activeStickerId, history,
                           historyIndex>>
            /\ UNCHANGED <<fusions, chains, selectedSticker, draggingStickerId,
                           resizingState, rotatingState, isLoading, error, pending>>
            /\ activeTool' # "crop" => completedCrop' = NoCrop
            /\ activeTool' = "crop" => completedCrop' = completedCrop
            /\ generateAction'.tool \in {activeTool', "none"}]_vars

\* C38 witness: with two markers placed, one of them selected and taken out
\* of their chain, the tool was switched to the filters tool.
C38_Witness ==
    /\ lastEvent.name = "toolSelect"
    /\ activeTool = "filters"
    /\ Len(placedStickers) = 2
    /\ activeStickerId \in PlacedIds
    /\ brokenChainLinks # {}

\* C39: after a switch to the filters or the adjust tool the derivation of
\* the action binding comes to rest: whenever the panel's effect or a render
\* of App is due, a state follows in which neither is due, the effect and
\* the parent's state update not setting each other off for ever.
C39_BindingQuiesces ==
    (panelEffectDue \/ appRenderDue) ~> (~panelEffectDue /\ ~appRenderDue)

\* C40: a pointer move applies at most one gesture update, by the priority
\* rotate, resize, drag: with a rotating state and an active selection only
\* the rotation (of the active marker) is updated; otherwise, with a
\* resizing state and an active selection, only the size; otherwise the
\* position of the dragged marker; and a mouse up or mouse leave on the
\* container clears the three gesture states at once.
C40_MovePriority ==
    [][/\ lastEvent'.name = "mouseMove" =>
            LET rotate == rotatingState.active /\ activeStickerId # NoId
                resize == ~rotate /\ resizingState.active /\ activeStickerId # NoId
                drag == ~rotate /\ ~resize
            IN /\ Len(placedStickers') = Len(placedStickers)
               /\ \A i \in 1..Len(placedStickers) :
                    LET old == placedStickers[i]
                        new == placedStickers'[i]
                    IN /\ rotate =>
                            \E a \in GestureAngles :
                                new = [old EXCEPT !.rotation =
                                        IF old.id = activeStickerId
                                        THEN rotatingState.initialRotation
                                                + (a - rotatingState.startAngle)
                                        ELSE old.rotation]
                       /\ resize =>
                            new = [old EXCEPT !.size =
                                    IF old.id = activeStickerId
                                    THEN ResizedSize(resizingState.initialSize,
                                                     lastEvent'.arg - resizingState.startX)
                                    ELSE old.size]
                       /\ drag =>
                            \E p \in GesturePoints :
                                /\ lastEvent'.arg = p[1]
                                /\ new = IF old.id = draggingStickerId
                                         THEN [old EXCEPT
                                                !.x = ClampedPercent(p[1], rect.width),
                                                !.y = ClampedPercent(p[2], rect.height)]
                                         ELSE old
       /\ lastEvent'.name = "mouseUp" =>
            /\ draggingStickerId' = NoId
            /\ resizingState' = NoResize
            /\ rotatingState' = NoRotate]_vars

\* C40 witness: a pointer move met a rotating state, a resizing state and a
\* dragged marker at once, and the active marker was rotated to 45 degrees,
\* its size and its position being those it was placed with.
C40_Witness ==
    /\ lastEvent.name = "mouseMove"
    /\ rotatingState.active /\ resizingState.active /\ draggingStickerId # NoId
    /\ activeStickerId \in PlacedIds
    /\ StickerOf(activeStickerId).rotation = 45
    /\ StickerOf(activeStickerId).size = DefaultSize
    /\ StickerOf(activeStickerId).x = 0
    /\ rotatingState.initialRotation = 0


====
